---------------------------- MODULE Spec2Model ----------------------------
(***************************************************************************)
(* DevShare backend: the MongoDB implementation (backend/src) and the      *)
(* Firestore implementation (backend/app) as request handlers over a       *)
(* document store.  Every storage call of a handler is one atomic step of  *)
(* the request that makes it; a request is a process with a program        *)
(* counter and the handler's local variables.                              *)
(*                                                                         *)
(*   Spec      MongoDB handlers, one request at a time                     *)
(*   SpecConc  MongoDB handlers, two requests interleaved step by step     *)
(*   SpecFs    Firestore handlers, two requests interleaved step by step   *)
(*   SpecCascade  MongoDB deletePost interleaved with likes and replies    *)
(*   SpecFail  Spec, with storage calls of deletePost that may raise       *)
(*   SpecFsSeq Firestore handlers, one request at a time, any header       *)
(*   SpecFsNotif  Firestore notifications and profiles, one at a time      *)
(*   SpecFsPosts  Firestore edits and deletion of posts, one at a time     *)
(*   SpecNames get_user_display_name over bounded profiles and records     *)
(*   SpecEdit  MongoDB editPost over bounded file lists, one at a time     *)
(***************************************************************************)
EXTENDS Integers, FiniteSets, Sequences, Bags, TLC

----------------------------------------------------------------------------
(* Bounds and the fixture the handlers run on *)

MaxCalls == 3        \* requests started in one behaviour of Spec
MaxConcCalls == 3    \* requests started in one behaviour of SpecConc
MaxFsCalls == 3      \* requests started in one behaviour of SpecFs
MaxCascadeCalls == 3 \* requests started in one behaviour of SpecCascade
MaxFsSeqCalls == 3   \* requests started in one behaviour of SpecFsSeq
MaxFsNotifCalls == 3 \* requests started in one behaviour of SpecFsNotif
MaxFsPostCalls == 3  \* requests started in one behaviour of SpecFsPosts
MaxEditCalls == 2    \* requests started in one behaviour of SpecEdit
MaxReplies == 2      \* ObjectIds available to replies.insert_one

Users == {"A", "B", "C"}
Posts == {"p1", "p2"}
Comments == {"c1", "c2"}
ReplyIds == 1 .. MaxReplies
Procs == {1, 2}
Contents == {"", "text"}   \* request bodies: an empty content and a non-empty one
ReplyBodies == {"", " ", " edit "}   \* bodies of an edit: empty, blank, text in blanks

NoId == "none"       \* an absent string-valued reference (None)
NoReply == 0         \* an absent reply reference (None)

\* The fixture: p1 is A's post with a comment by A and one by B, p2 is B's post.
PostOwner == [p \in Posts |-> IF p = "p1" THEN "A" ELSE "B"]
CommentOwner == [c \in Comments |-> IF c = "c1" THEN "A" ELSE "B"]
CommentPost == [c \in Comments |-> "p1"]

\* The Firestore fixture: fp1 is A's post, fc1 is B's comment on it.
FsPosts == {"fp1"}
FsComments == {"fc1"}
FsReplies == {"fr1", "fr2"}   \* document ids available to replies in 'comments'
FsPostOwner == [p \in FsPosts |-> "A"]
FsCommentOwner == [c \in FsComments |-> "B"]
FsCommentPost == [c \in FsComments |-> "fp1"]

----------------------------------------------------------------------------
VARIABLES
    posts,          \* mongo.db.posts: post id -> document
    comments,       \* mongo.db.comments: comment id -> document
    replies,        \* mongo.db.replies: reply id -> document
    likes,          \* mongo.db.likes: bag of {user_id, post_id}
    comment_likes,  \* mongo.db.comment_likes: bag of {user_id, comment_id}
    reply_likes,    \* mongo.db.reply_likes: bag of {user_id, reply_id, comment_id, post_id}
    notifications,  \* mongo.db.notifications: bag of notification documents
    next_reply,     \* the next fresh reply ObjectId
    req,            \* the requests in progress: process -> pc and locals
    calls,          \* number of requests started so far
    toggles,        \* history: completed 200 answers of PostLike.post per (user, post)
    added,          \* history: completed 201 answers of CommentReplies.post per comment
    removed,        \* history: completed 200 answers of ReplyModify.delete per comment
    fs_posts,         \* Firestore 'posts': post id -> document
    fs_comments,      \* Firestore 'comments': comment id -> document
    fs_likes,         \* Firestore 'likes': set of documents {id, userId, postId}
    fs_commentLikes,  \* Firestore 'commentLikes': set of documents {id, userId, commentId}
    fs_notifications, \* Firestore 'notifications': set of notification documents
    fs_next,          \* the next auto-generated Firestore document id
    fs_users,         \* Firestore 'users': uid -> profile document
    fs_auth           \* Firebase Auth: uid -> user record

mongoVars == <<posts, comments, replies, likes, comment_likes, reply_likes,
               notifications, next_reply>>
histVars == <<toggles, added, removed>>
profileVars == <<fs_users, fs_auth>>
fsVars == <<fs_posts, fs_comments, fs_likes, fs_commentLikes, fs_notifications, fs_next,
            fs_users, fs_auth>>
vars == <<posts, comments, replies, likes, comment_likes, reply_likes,
          notifications, next_reply, req, calls, toggles, added, removed,
          fs_posts, fs_comments, fs_likes, fs_commentLikes, fs_notifications, fs_next,
          fs_users, fs_auth>>

----------------------------------------------------------------------------
(* Documents *)

NoPost == [exists |-> FALSE, user_id |-> NoId, likes_count |-> 0, comments_count |-> 0,
           files |-> <<>>]
NoComment == [exists |-> FALSE, post_id |-> NoId, user_id |-> NoId, replies_count |-> 0]
NoReplyDoc == [exists |-> FALSE, content |-> "", updated_at |-> 0,
               comment_id |-> NoId, post_id |-> NoId,
               user_id |-> NoId, likes_count |-> 0]

Like(u, p) == [user_id |-> u, post_id |-> p]
CommentLike(u, c) == [user_id |-> u, comment_id |-> c]
ReplyLike(u, r, c, p) == [user_id |-> u, reply_id |-> r, comment_id |-> c, post_id |-> p]
Notification(rcp, act, t, p, c, r) ==
    [recipient_id |-> rcp, actor_id |-> act, type |-> t,
     post_id |-> p, comment_id |-> c, reply_id |-> r]

\* The idle request record; every request record has these fields.
NoBody == [recipientId |-> NoId, senderId |-> NoId]

\* The Authorization header of a request: absent, or a scheme and a token
NoHeader == [scheme |-> NoId, token |-> NoId]
Bearer(token) == [scheme |-> "Bearer", token |-> token]
Basic(token) == [scheme |-> "Basic", token |-> token]

\* the headers a client acting for u may send: none, one that does not start with
\* 'Bearer ', a Bearer token the identity provider rejects, u's valid ID token
HeadersOf(u) == {NoHeader, Basic(u), Bearer("forged"), Bearer(u)}

Idle == [pc |-> "idle", op |-> "none", user |-> NoId, id |-> NoId, rid |-> NoReply,
         content |-> "", existing |-> FALSE, doc |-> NoReplyDoc, owner |-> NoId,
         post |-> NoId, cids |-> {}, rids |-> {}, body |-> NoBody, status |-> 0,
         wrote |-> FALSE, auth |-> NoHeader, batch |-> {}, name |-> <<>>,
         update |-> <<>>, files |-> <<>>, new_files |-> <<>>]

----------------------------------------------------------------------------
(* The collection primitives the handlers use *)

\* collection.insert_one(d) on a collection without a unique index
InsertOne(B, d) == B (+) SetToBag({d})

\* collection.delete_one(filter) where the filter names every field of d
DeleteOne(B, d) == IF BagIn(d, B) THEN B (-) SetToBag({d}) ELSE B

\* collection.delete_many(filter): the documents the filter does not match stay
DeleteMany(B, Match(_)) == [d \in {x \in BagToSet(B) : ~Match(x)} |-> CopiesIn(d, B)]

\* number of documents of B the predicate matches
CountDocs(B, Match(_)) ==
    LET S == {x \in BagToSet(B) : Match(x)}
        RECURSIVE Sum(_)
        Sum(T) == IF T = {} THEN 0
                  ELSE LET x == CHOOSE y \in T : TRUE IN CopiesIn(x, B) + Sum(T \ {x})
    IN Sum(S)

----------------------------------------------------------------------------
(* Request bookkeeping *)

Goto(q, l) == req' = [req EXCEPT ![q].pc = l]

\* the handler returns its response; the request is over
Respond(q, code) == req' = [req EXCEPT ![q].pc = "done", ![q].status = code]

\* the same after a storage call that writes; wrote records whether the request has
\* changed a stored document so far
GotoW(q, l, changed) == req' = [req EXCEPT ![q].pc = l, ![q].wrote = @ \/ changed]

RespondW(q, code, changed) ==
    req' = [req EXCEPT ![q].pc = "done", ![q].status = code, ![q].wrote = @ \/ changed]

Begin(q, opname, u, target, r, text) ==
    /\ req[q].pc = "idle"
    /\ req' = [req EXCEPT ![q] = [Idle EXCEPT !.pc = "begin", !.op = opname, !.user = u,
                                              !.id = target, !.rid = r, !.content = text]]
    /\ calls' = calls + 1
    /\ UNCHANGED <<mongoVars, histVars, fsVars>>

At(q, opname, l) == req[q].op = opname /\ req[q].pc = l

\* the response has been sent; the worker is free again
Return(q) ==
    /\ req[q].pc = "done"
    /\ req' = [req EXCEPT ![q] = Idle]
    /\ UNCHANGED <<mongoVars, histVars, calls, fsVars>>

AllIdle == \A q \in Procs : req[q].pc = "idle"

----------------------------------------------------------------------------
(* src/utils/social_utils.py *)

check_post_exists(p) == posts[p].exists
check_comment_exists(c) == comments[c].exists
check_reply_exists(r) == replies[r].exists

\* no notification when the actor is the recipient
create_notification(N, rcp, act, t, p, c, r) ==
    IF rcp = act \/ rcp = NoId THEN N
    ELSE InsertOne(N, Notification(rcp, act, t, p, c, r))

\* deletes the one notification that matches every reference given
delete_notification(N, rcp, act, t, p, c, r) ==
    DeleteOne(N, Notification(rcp, act, t, p, c, r))

----------------------------------------------------------------------------
(* src/database/indexes.py: the unique compound indexes *)

\* faulty variant: the likes index is not unique
LikesIndexNotUnique(d) == FALSE

\* likes (user_id, post_id) unique: insert_one raises DuplicateKeyError
LikesIndexRejects(d) == \E x \in BagToSet(likes) :
                            x.user_id = d.user_id /\ x.post_id = d.post_id

\* reply_likes (user_id, reply_id) unique
ReplyLikesIndexRejects(d) == \E x \in BagToSet(reply_likes) :
                                 x.user_id = d.user_id /\ x.reply_id = d.reply_id

----------------------------------------------------------------------------
(* update_one({"_id": id}, {"$inc": {field: delta}}): nothing when no document matches *)

IncLikesCount(P, p, delta) ==
    IF P[p].exists THEN [P EXCEPT ![p].likes_count = @ + delta] ELSE P

IncCommentsCount(P, p, delta) ==
    IF p \in DOMAIN P /\ P[p].exists THEN [P EXCEPT ![p].comments_count = @ + delta] ELSE P

IncRepliesCount(C, c, delta) ==
    IF c \in DOMAIN C /\ C[c].exists THEN [C EXCEPT ![c].replies_count = @ + delta] ELSE C

IncReplyLikesCount(R, r, delta) ==
    IF R[r].exists THEN [R EXCEPT ![r].likes_count = @ + delta] ELSE R

----------------------------------------------------------------------------
(* src/routes/social/likes.py: PostLike.post, toggle like/unlike for a post *)

PostLike_begin(q, u, p) == Begin(q, "toggleLike", u, p, NoReply, "")

\* faulty variant: the unlike branch increments too
LikeDeltaUpOnly(existing_like) == 1

\* {"$inc": {"likes_count": -1}} in the unlike branch, {"likes_count": 1} in the like branch
LikeDelta(existing_like) == IF existing_like THEN -1 ELSE 1

\* faulty variant: the unlike branch leaves the notification in place
PostLike_notification_kept(N, existing_like, post_owner_id, user_id, post_id) ==
    IF existing_like THEN N
    ELSE create_notification(N, post_owner_id, user_id, "post_liked", post_id, NoId, NoReply)

\* delete_notification(...) after an unlike, create_notification(...) after a like
PostLike_notification(N, existing_like, post_owner_id, user_id, post_id) ==
    IF existing_like
      THEN delete_notification(N, post_owner_id, user_id, "post_liked", post_id, NoId, NoReply)
      ELSE create_notification(N, post_owner_id, user_id, "post_liked", post_id, NoId, NoReply)

\* check_post_exists(post_id)
PostLike_check(q) ==
    /\ At(q, "toggleLike", "begin")
    /\ IF check_post_exists(req[q].id) THEN Goto(q, "find") ELSE Respond(q, 404)
    /\ UNCHANGED <<mongoVars, histVars, calls, fsVars>>

\* existing_like = likes.find_one({user_id, post_id})
PostLike_find(q) ==
    /\ At(q, "toggleLike", "find")
    /\ req' = [req EXCEPT ![q].pc = "write",
                          ![q].existing = BagIn(Like(req[q].user, req[q].id), likes)]
    /\ UNCHANGED <<mongoVars, histVars, calls, fsVars>>

\* likes.delete_one(...) when a like was found, likes.insert_one(...) otherwise;
\* a DuplicateKeyError leaves the try block: 500
PostLike_write(q) ==
    LET d == Like(req[q].user, req[q].id) IN
    /\ At(q, "toggleLike", "write")
    /\ IF req[q].existing
         THEN likes' = DeleteOne(likes, d) /\ GotoW(q, "inc", likes' # likes)
         ELSE IF LikesIndexRejects(d)
                THEN likes' = likes /\ RespondW(q, 500, likes' # likes)
                ELSE likes' = InsertOne(likes, d) /\ GotoW(q, "inc", likes' # likes)
    /\ UNCHANGED <<posts, comments, replies, comment_likes, reply_likes, notifications,
                   next_reply, histVars, calls, fsVars>>

\* posts.update_one({_id}, {"$inc": {"likes_count": -1 or 1}})
PostLike_inc(q) ==
    /\ At(q, "toggleLike", "inc")
    /\ posts' = IncLikesCount(posts, req[q].id, LikeDelta(req[q].existing))
    /\ GotoW(q, "read", posts' # posts)
    /\ UNCHANGED <<comments, replies, likes, comment_likes, reply_likes, notifications,
                   next_reply, histVars, calls, fsVars>>

\* updated_post = posts.find_one({_id}); updated_post.get(...) raises on None: 500
PostLike_read(q) ==
    /\ At(q, "toggleLike", "read")
    /\ IF posts[req[q].id].exists
         THEN req' = [req EXCEPT ![q].pc = "notify", ![q].owner = posts[req[q].id].user_id]
         ELSE Respond(q, 500)
    /\ UNCHANGED <<mongoVars, histVars, calls, fsVars>>

\* the notification of the branch taken, then 200
PostLike_notify(q) ==
    LET u == req[q].user
        p == req[q].id IN
    /\ At(q, "toggleLike", "notify")
    /\ notifications' = PostLike_notification(notifications, req[q].existing, req[q].owner,
                                                u, p)
    /\ RespondW(q, 200, notifications' # notifications)
    /\ toggles' = [toggles EXCEPT ![u, p] = @ + 1]
    /\ UNCHANGED <<posts, comments, replies, likes, comment_likes, reply_likes,
                   next_reply, added, removed, calls, fsVars>>

PostLike_post(q) ==
    \/ PostLike_check(q)
    \/ PostLike_find(q)
    \/ PostLike_write(q)
    \/ PostLike_inc(q)
    \/ PostLike_read(q)
    \/ PostLike_notify(q)

----------------------------------------------------------------------------
(* src/routes/social/replies.py: CommentReplies.post, add a reply to a comment *)

\* replies.insert_one never runs out of ObjectIds: a request is only accepted
\* while an id is left for it
ReplyIdLeft ==
    next_reply + Cardinality({q \in Procs : req[q].op = "addReply" /\ req[q].pc \in {"begin", "insert"}})
        <= MaxReplies

CommentReplies_begin(q, u, c, text) ==
    /\ ReplyIdLeft
    /\ Begin(q, "addReply", u, c, NoReply, text)

\* content.strip() empty: 400; check_comment_exists(comment_id): 404 or the comment
CommentReplies_check(q) ==
    LET c == req[q].id IN
    /\ At(q, "addReply", "begin")
    /\ IF req[q].content = "" THEN Respond(q, 400)
       ELSE IF ~check_comment_exists(c) THEN Respond(q, 404)
       ELSE req' = [req EXCEPT ![q].pc = "insert",
                               ![q].doc = [exists |-> TRUE, comment_id |-> c,
                                           post_id |-> comments[c].post_id,
                                           user_id |-> comments[c].user_id,
                                           likes_count |-> 0]]
    /\ UNCHANGED <<mongoVars, histVars, calls, fsVars>>

\* replies.insert_one(reply_data)
CommentReplies_insert(q) ==
    /\ At(q, "addReply", "insert")
    /\ replies' = [replies EXCEPT ![next_reply] =
                     [exists |-> TRUE, content |-> req[q].content, updated_at |-> 0,
                      comment_id |-> req[q].id,
                      post_id |-> req[q].doc.post_id, user_id |-> req[q].user,
                      likes_count |-> 0]]
    /\ next_reply' = next_reply + 1
    /\ req' = [req EXCEPT ![q].pc = "inc_comment", ![q].rid = next_reply,
                       ![q].wrote = TRUE]
    /\ UNCHANGED <<posts, comments, likes, comment_likes, reply_likes, notifications,
                   histVars, calls, fsVars>>

\* comments.update_one({_id: comment_id}, {"$inc": {"replies_count": 1}})
CommentReplies_inc_comment(q) ==
    /\ At(q, "addReply", "inc_comment")
    /\ comments' = IncRepliesCount(comments, req[q].id, 1)
    /\ GotoW(q, "inc_post", comments' # comments)
    /\ UNCHANGED <<posts, replies, likes, comment_likes, reply_likes, notifications,
                   next_reply, histVars, calls, fsVars>>

\* posts.update_one({_id: comment.post_id}, {"$inc": {"comments_count": 1}})
CommentReplies_inc_post(q) ==
    /\ At(q, "addReply", "inc_post")
    /\ posts' = IncCommentsCount(posts, req[q].doc.post_id, 1)
    /\ GotoW(q, "find_post", posts' # posts)
    /\ UNCHANGED <<comments, replies, likes, comment_likes, reply_likes, notifications,
                   next_reply, histVars, calls, fsVars>>

\* post = posts.find_one({_id: comment.post_id}); post_owner_id is None without a post
CommentReplies_find_post(q) ==
    LET p == req[q].doc.post_id IN
    /\ At(q, "addReply", "find_post")
    /\ req' = [req EXCEPT ![q].pc = "notify",
                          ![q].owner = IF posts[p].exists THEN posts[p].user_id ELSE NoId]
    /\ UNCHANGED <<mongoVars, histVars, calls, fsVars>>

\* faulty variant: the post owner is notified whenever the post is found
NotifyPostOwnerAlways(post_owner_id, comment_owner_id, user_id) == post_owner_id # NoId

\* the post owner is notified when different from the comment owner and the replier
NotifyPostOwner(post_owner_id, comment_owner_id, user_id) ==
    /\ post_owner_id # NoId
    /\ post_owner_id # comment_owner_id
    /\ post_owner_id # user_id

\* create_notification for the comment owner; 201 unless the post owner is notified too
CommentReplies_notify(q) ==
    LET d == req[q].doc IN
    /\ At(q, "addReply", "notify")
    /\ notifications' = create_notification(notifications, d.user_id, req[q].user,
                            "reply_added", d.post_id, d.comment_id, req[q].rid)
    /\ IF NotifyPostOwner(req[q].owner, d.user_id, req[q].user)
         THEN GotoW(q, "notify_owner", notifications' # notifications) /\ added' = added
         ELSE /\ RespondW(q, 201, notifications' # notifications)
              /\ added' = [added EXCEPT ![req[q].id] = @ + 1]
    /\ UNCHANGED <<posts, comments, replies, likes, comment_likes, reply_likes,
                   next_reply, toggles, removed, calls, fsVars>>

\* create_notification for the post owner; 201
CommentReplies_notify_owner(q) ==
    LET d == req[q].doc IN
    /\ At(q, "addReply", "notify_owner")
    /\ notifications' = create_notification(notifications, req[q].owner, req[q].user,
                            "reply_added", d.post_id, d.comment_id, req[q].rid)
    /\ RespondW(q, 201, notifications' # notifications)
    /\ added' = [added EXCEPT ![req[q].id] = @ + 1]
    /\ UNCHANGED <<posts, comments, replies, likes, comment_likes, reply_likes,
                   next_reply, toggles, removed, calls, fsVars>>

CommentReplies_post(q) ==
    \/ CommentReplies_check(q)
    \/ CommentReplies_insert(q)
    \/ CommentReplies_inc_comment(q)
    \/ CommentReplies_inc_post(q)
    \/ CommentReplies_find_post(q)
    \/ CommentReplies_notify(q)
    \/ CommentReplies_notify_owner(q)

----------------------------------------------------------------------------
(* src/routes/social/replies.py: ReplyModify.delete, delete a reply *)

ReplyModify_begin(q, u, r) == Begin(q, "deleteReply", u, NoId, r, "")

\* check_reply_exists(reply_id): 404 or the reply
ReplyModify_check(q) ==
    /\ At(q, "deleteReply", "begin")
    /\ IF check_reply_exists(req[q].rid)
         THEN req' = [req EXCEPT ![q].pc = "find_post", ![q].doc = replies[req[q].rid]]
         ELSE Respond(q, 404)
    /\ UNCHANGED <<mongoVars, histVars, calls, fsVars>>

\* faulty variant: only the reply's author passes the ownership check
ReplyModify_find_post_author_only(q) ==
    LET d == req[q].doc IN
    /\ At(q, "deleteReply", "find_post")
    /\ IF d.user_id = req[q].user THEN Goto(q, "delete_likes") ELSE Respond(q, 403)
    /\ UNCHANGED <<mongoVars, histVars, calls, fsVars>>

\* post = posts.find_one({_id: reply.post_id}); the caller must own the reply or the
\* post: 403; post["user_id"] on None raises when it is evaluated: 500
ReplyModify_find_post(q) ==
    LET d == req[q].doc IN
    /\ At(q, "deleteReply", "find_post")
    /\ IF d.user_id = req[q].user THEN Goto(q, "delete_likes")
       ELSE IF ~posts[d.post_id].exists THEN Respond(q, 500)
       ELSE IF posts[d.post_id].user_id = req[q].user THEN Goto(q, "delete_likes")
       ELSE Respond(q, 403)
    /\ UNCHANGED <<mongoVars, histVars, calls, fsVars>>

\* reply_likes.delete_many({reply_id})
ReplyModify_delete_likes(q) ==
    LET OnReply(x) == x.reply_id = req[q].rid IN
    /\ At(q, "deleteReply", "delete_likes")
    /\ reply_likes' = DeleteMany(reply_likes, OnReply)
    /\ GotoW(q, "delete_reply", reply_likes' # reply_likes)
    /\ UNCHANGED <<posts, comments, replies, likes, comment_likes, notifications,
                   next_reply, histVars, calls, fsVars>>

\* replies.delete_one({_id: reply_id})
ReplyModify_delete_reply(q) ==
    /\ At(q, "deleteReply", "delete_reply")
    /\ replies' = [replies EXCEPT ![req[q].rid] = NoReplyDoc]
    /\ GotoW(q, "dec_comment", replies' # replies)
    /\ UNCHANGED <<posts, comments, likes, comment_likes, reply_likes, notifications,
                   next_reply, histVars, calls, fsVars>>

\* faulty variant: the comment's replies_count is not updated
ReplyModify_dec_comment_skipped(q) ==
    /\ At(q, "deleteReply", "dec_comment")
    /\ Goto(q, "dec_post")
    /\ UNCHANGED <<mongoVars, histVars, calls, fsVars>>

\* comments.update_one({_id: reply.comment_id}, {"$inc": {"replies_count": -1}})
ReplyModify_dec_comment(q) ==
    /\ At(q, "deleteReply", "dec_comment")
    /\ comments' = IncRepliesCount(comments, req[q].doc.comment_id, -1)
    /\ GotoW(q, "dec_post", comments' # comments)
    /\ UNCHANGED <<posts, replies, likes, comment_likes, reply_likes, notifications,
                   next_reply, histVars, calls, fsVars>>

\* posts.update_one({_id: reply.post_id}, {"$inc": {"comments_count": -1}}); 200
ReplyModify_dec_post(q) ==
    /\ At(q, "deleteReply", "dec_post")
    /\ posts' = IncCommentsCount(posts, req[q].doc.post_id, -1)
    /\ RespondW(q, 200, posts' # posts)
    /\ removed' = [removed EXCEPT ![req[q].doc.comment_id] = @ + 1]
    /\ UNCHANGED <<comments, replies, likes, comment_likes, reply_likes, notifications,
                   next_reply, toggles, added, calls, fsVars>>

ReplyModify_delete(q) ==
    \/ ReplyModify_check(q)
    \/ ReplyModify_find_post(q)
    \/ ReplyModify_delete_likes(q)
    \/ ReplyModify_delete_reply(q)
    \/ ReplyModify_dec_comment(q)
    \/ ReplyModify_dec_post(q)

----------------------------------------------------------------------------
(* src/routes/social/replies.py: ReplyModify.put, edit a reply *)

\* str.strip() on the bodies the requests carry
Strip(text) == CASE text = " " -> ""
                 [] text = " edit " -> "edit"
                 [] OTHER -> text

ReplyModify_put_begin(q, u, r, text) == Begin(q, "updateReply", u, NoId, r, text)

\* faulty variant: any authenticated user passes the ownership check
ReplyModify_put_check_any_user(q) ==
    /\ At(q, "updateReply", "begin")
    /\ IF Strip(req[q].content) = "" THEN Respond(q, 400)
       ELSE IF ~check_reply_exists(req[q].rid) THEN Respond(q, 404)
       ELSE req' = [req EXCEPT ![q].pc = "update", ![q].doc = replies[req[q].rid]]
    /\ UNCHANGED <<mongoVars, histVars, calls, fsVars>>

\* empty content after strip(): 400; check_reply_exists(reply_id): 404; the caller is
\* not reply["user_id"]: 403
ReplyModify_put_check(q) ==
    /\ At(q, "updateReply", "begin")
    /\ IF Strip(req[q].content) = "" THEN Respond(q, 400)
       ELSE IF ~check_reply_exists(req[q].rid) THEN Respond(q, 404)
       ELSE IF replies[req[q].rid].user_id # req[q].user THEN Respond(q, 403)
       ELSE req' = [req EXCEPT ![q].pc = "update", ![q].doc = replies[req[q].rid]]
    /\ UNCHANGED <<mongoVars, histVars, calls, fsVars>>

\* replies.update_one({_id: reply_id}, {"$set": {content, updated_at: utcnow()}});
\* updated_at counts the edits, each utcnow() being later than the stored one
ReplyModify_put_update(q) ==
    LET r == req[q].rid IN
    /\ At(q, "updateReply", "update")
    /\ replies' = IF replies[r].exists
                    THEN [replies EXCEPT ![r].content = Strip(req[q].content),
                                         ![r].updated_at = @ + 1]
                    ELSE replies
    /\ GotoW(q, "read", replies' # replies)
    /\ UNCHANGED <<posts, comments, likes, comment_likes, reply_likes, notifications,
                   next_reply, histVars, calls, fsVars>>

\* updated_reply = replies.find_one({_id: reply_id}); format_reply(updated_reply): 200;
\* format_reply of None, when the reply is gone, raises or not: 500 or 200
ReplyModify_put_read(q) ==
    /\ At(q, "updateReply", "read")
    /\ \E code \in {200, 500} :
          /\ replies[req[q].rid].exists => code = 200
          /\ Respond(q, code)
    /\ UNCHANGED <<mongoVars, histVars, calls, fsVars>>

ReplyModify_put(q) ==
    \/ ReplyModify_put_check(q)
    \/ ReplyModify_put_update(q)
    \/ ReplyModify_put_read(q)

----------------------------------------------------------------------------
(* src/routes/social/replies.py: ReplyLikes.post, toggle like/unlike for a reply *)

ReplyLikes_begin(q, u, r) == Begin(q, "toggleReplyLike", u, NoId, r, "")

\* check_reply_exists(reply_id): 404 or the reply
ReplyLikes_check(q) ==
    /\ At(q, "toggleReplyLike", "begin")
    /\ IF check_reply_exists(req[q].rid)
         THEN req' = [req EXCEPT ![q].pc = "find", ![q].doc = replies[req[q].rid]]
         ELSE Respond(q, 404)
    /\ UNCHANGED <<mongoVars, histVars, calls, fsVars>>

\* existing = reply_likes.find_one({user_id, reply_id})
ReplyLikes_find(q) ==
    /\ At(q, "toggleReplyLike", "find")
    /\ req' = [req EXCEPT ![q].pc = "write",
                          ![q].existing = \E x \in BagToSet(reply_likes) :
                                             /\ x.user_id = req[q].user
                                             /\ x.reply_id = req[q].rid]
    /\ UNCHANGED <<mongoVars, histVars, calls, fsVars>>

\* reply_likes.delete_one({user_id, reply_id}) when a like was found,
\* reply_likes.insert_one(...) otherwise; a DuplicateKeyError answers 500
ReplyLikes_write(q) ==
    LET d == ReplyLike(req[q].user, req[q].rid, req[q].doc.comment_id, req[q].doc.post_id)
        Mine(x) == x.user_id = req[q].user /\ x.reply_id = req[q].rid
        hit == {x \in BagToSet(reply_likes) : Mine(x)} IN
    /\ At(q, "toggleReplyLike", "write")
    /\ IF req[q].existing
         THEN /\ \/ hit = {} /\ reply_likes' = reply_likes
                 \/ \E x \in hit : reply_likes' = DeleteOne(reply_likes, x)
              /\ GotoW(q, "inc", reply_likes' # reply_likes)
         ELSE IF ReplyLikesIndexRejects(d)
                THEN reply_likes' = reply_likes /\ RespondW(q, 500, reply_likes' # reply_likes)
                ELSE /\ reply_likes' = InsertOne(reply_likes, d)
                     /\ GotoW(q, "inc", reply_likes' # reply_likes)
    /\ UNCHANGED <<posts, comments, replies, likes, comment_likes, notifications,
                   next_reply, histVars, calls, fsVars>>

\* replies.update_one({_id: reply_id}, {"$inc": {"likes_count": -1 or 1}})
ReplyLikes_inc(q) ==
    /\ At(q, "toggleReplyLike", "inc")
    /\ replies' = IncReplyLikesCount(replies, req[q].rid, IF req[q].existing THEN -1 ELSE 1)
    /\ GotoW(q, "read", replies' # replies)
    /\ UNCHANGED <<posts, comments, likes, comment_likes, reply_likes, notifications,
                   next_reply, histVars, calls, fsVars>>

\* updated = replies.find_one({_id: reply_id}), used only in the response
ReplyLikes_read(q) ==
    /\ At(q, "toggleReplyLike", "read")
    /\ req' = [req EXCEPT ![q].pc = "notify",
                          ![q].owner = IF replies[req[q].rid].exists THEN "found" ELSE NoId]
    /\ UNCHANGED <<mongoVars, histVars, calls, fsVars>>

\* faulty variant: the unlike branch leaves the notification in place
ReplyLikes_notify_kept(q) ==
    LET d == req[q].doc IN
    /\ At(q, "toggleReplyLike", "notify")
    /\ notifications' =
         IF req[q].existing THEN notifications
         ELSE create_notification(notifications, d.user_id, req[q].user, "reply_liked",
                                  d.post_id, d.comment_id, req[q].rid)
    /\ RespondW(q, IF req[q].owner = NoId THEN 500 ELSE 200, notifications' # notifications)
    /\ UNCHANGED <<posts, comments, replies, likes, comment_likes, reply_likes,
                   next_reply, histVars, calls, fsVars>>

\* delete_notification(...) after an unlike, create_notification(...) after a like,
\* both addressed to the reply owner; updated.get(...) raises on None: 500
ReplyLikes_notify(q) ==
    LET d == req[q].doc IN
    /\ At(q, "toggleReplyLike", "notify")
    /\ notifications' =
         IF req[q].existing
           THEN delete_notification(notifications, d.user_id, req[q].user, "reply_liked",
                                    d.post_id, d.comment_id, req[q].rid)
           ELSE create_notification(notifications, d.user_id, req[q].user, "reply_liked",
                                    d.post_id, d.comment_id, req[q].rid)
    /\ RespondW(q, IF req[q].owner = NoId THEN 500 ELSE 200, notifications' # notifications)
    /\ UNCHANGED <<posts, comments, replies, likes, comment_likes, reply_likes,
                   next_reply, histVars, calls, fsVars>>

ReplyLikes_post(q) ==
    \/ ReplyLikes_check(q)
    \/ ReplyLikes_find(q)
    \/ ReplyLikes_write(q)
    \/ ReplyLikes_inc(q)
    \/ ReplyLikes_read(q)
    \/ ReplyLikes_notify(q)

----------------------------------------------------------------------------
(* src/routes/social/comments.py: toggle like/unlike for a comment, one unit *)

CommentLikes_post(q, u, c) ==
    LET d == CommentLike(u, c)
        o == comments[c].user_id
        p == comments[c].post_id IN
    /\ req[q].pc = "idle"
    /\ check_comment_exists(c)
    /\ IF BagIn(d, comment_likes)
         THEN /\ comment_likes' = DeleteOne(comment_likes, d)
              /\ notifications' = delete_notification(notifications, o, u, "comment_liked",
                                                      p, c, NoReply)
         ELSE /\ comment_likes' = InsertOne(comment_likes, d)
              /\ notifications' = create_notification(notifications, o, u, "comment_liked",
                                                      p, c, NoReply)
    /\ req' = [req EXCEPT ![q] = [Idle EXCEPT !.pc = "done", !.op = "toggleCommentLike",
                                              !.user = u, !.id = c, !.status = 200,
                                              !.wrote = TRUE]]
    /\ calls' = calls + 1
    /\ UNCHANGED <<posts, comments, replies, likes, reply_likes, next_reply, histVars,
                   fsVars>>

----------------------------------------------------------------------------
(* src/routes/profile_posts.py: UserPostDetail.delete, delete the caller's own post *)

UserPostDetail_begin(q, u, p) == Begin(q, "deletePost", u, p, NoReply, "")

\* faulty variant: the post is looked up by _id alone
UserPostDetail_check_any_owner(q) ==
    LET p == req[q].id IN
    /\ At(q, "deletePost", "begin")
    /\ IF posts[p].exists THEN Goto(q, "likes") ELSE Respond(q, 404)
    /\ UNCHANGED <<mongoVars, histVars, calls, fsVars>>

\* post = posts.find_one({_id: post_id, user_id: caller}): 404 without one
UserPostDetail_check(q) ==
    LET p == req[q].id IN
    /\ At(q, "deletePost", "begin")
    /\ IF posts[p].exists /\ posts[p].user_id = req[q].user
         THEN Goto(q, "likes") ELSE Respond(q, 404)
    /\ UNCHANGED <<mongoVars, histVars, calls, fsVars>>

\* faulty variant: the post document is deleted together with its likes
UserPostDetail_likes_post_first(q) ==
    LET OnPost(x) == x.post_id = req[q].id IN
    /\ At(q, "deletePost", "likes")
    /\ likes' = DeleteMany(likes, OnPost)
    /\ posts' = [posts EXCEPT ![req[q].id] = NoPost]
    /\ GotoW(q, "find_comments", TRUE)
    /\ UNCHANGED <<comments, replies, comment_likes, reply_likes, notifications,
                   next_reply, histVars, calls, fsVars>>

\* 1. likes.delete_many({post_id})
UserPostDetail_likes(q) ==
    LET OnPost(x) == x.post_id = req[q].id IN
    /\ At(q, "deletePost", "likes")
    /\ likes' = DeleteMany(likes, OnPost)
    /\ GotoW(q, "find_comments", likes' # likes)
    /\ UNCHANGED <<posts, comments, replies, comment_likes, reply_likes, notifications,
                   next_reply, histVars, calls, fsVars>>

\* 2. comment_ids = ids of comments.find({post_id})
UserPostDetail_find_comments(q) ==
    /\ At(q, "deletePost", "find_comments")
    /\ req' = [req EXCEPT ![q].pc = "comment_likes",
                          ![q].cids = {c \in Comments : comments[c].exists
                                                        /\ comments[c].post_id = req[q].id}]
    /\ UNCHANGED <<mongoVars, histVars, calls, fsVars>>

\* 3. if comment_ids: comment_likes.delete_many({comment_id: {$in: comment_ids}})
UserPostDetail_comment_likes(q) ==
    LET OnComments(x) == x.comment_id \in req[q].cids IN
    /\ At(q, "deletePost", "comment_likes")
    /\ comment_likes' = DeleteMany(comment_likes, OnComments)
    /\ GotoW(q, "find_replies", comment_likes' # comment_likes)
    /\ UNCHANGED <<posts, comments, replies, likes, reply_likes, notifications,
                   next_reply, histVars, calls, fsVars>>

\* 4. reply_ids = ids of replies.find({comment_id: {$in: comment_ids}})
UserPostDetail_find_replies(q) ==
    /\ At(q, "deletePost", "find_replies")
    /\ req' = [req EXCEPT ![q].pc = "reply_likes",
                          ![q].rids = {r \in ReplyIds : replies[r].exists
                                                        /\ replies[r].comment_id \in req[q].cids}]
    /\ UNCHANGED <<mongoVars, histVars, calls, fsVars>>

\* faulty variant: step 5 is left out
UserPostDetail_reply_likes_skipped(q) ==
    /\ At(q, "deletePost", "reply_likes")
    /\ Goto(q, "replies")
    /\ UNCHANGED <<mongoVars, histVars, calls, fsVars>>

\* 5. if reply_ids: reply_likes.delete_many({reply_id: {$in: reply_ids}})
UserPostDetail_reply_likes(q) ==
    LET OnReplies(x) == x.reply_id \in req[q].rids IN
    /\ At(q, "deletePost", "reply_likes")
    /\ reply_likes' = DeleteMany(reply_likes, OnReplies)
    /\ GotoW(q, "replies", reply_likes' # reply_likes)
    /\ UNCHANGED <<posts, comments, replies, likes, comment_likes, notifications,
                   next_reply, histVars, calls, fsVars>>

\* 6. if comment_ids: replies.delete_many({comment_id: {$in: comment_ids}})
UserPostDetail_replies(q) ==
    /\ At(q, "deletePost", "replies")
    /\ replies' = [r \in ReplyIds |->
                     IF replies[r].exists /\ replies[r].comment_id \in req[q].cids
                       THEN NoReplyDoc ELSE replies[r]]
    /\ GotoW(q, "comments", replies' # replies)
    /\ UNCHANGED <<posts, comments, likes, comment_likes, reply_likes, notifications,
                   next_reply, histVars, calls, fsVars>>

\* 7. comments.delete_many({post_id})
UserPostDetail_comments(q) ==
    /\ At(q, "deletePost", "comments")
    /\ comments' = [c \in Comments |->
                      IF comments[c].exists /\ comments[c].post_id = req[q].id
                        THEN NoComment ELSE comments[c]]
    /\ GotoW(q, "notifications", comments' # comments)
    /\ UNCHANGED <<posts, replies, likes, comment_likes, reply_likes, notifications,
                   next_reply, histVars, calls, fsVars>>

\* 8. notifications.delete_many({post_id})
UserPostDetail_notifications(q) ==
    LET OnPost(x) == x.post_id = req[q].id IN
    /\ At(q, "deletePost", "notifications")
    /\ notifications' = DeleteMany(notifications, OnPost)
    /\ GotoW(q, "post", notifications' # notifications)
    /\ UNCHANGED <<posts, comments, replies, likes, comment_likes, reply_likes,
                   next_reply, histVars, calls, fsVars>>

\* 9. posts.delete_one({_id: post_id}); deleted_count == 0: 404, else 200
UserPostDetail_post(q) ==
    LET p == req[q].id IN
    /\ At(q, "deletePost", "post")
    /\ posts' = [posts EXCEPT ![p] = NoPost]
    /\ RespondW(q, IF posts[p].exists THEN 200 ELSE 404, posts' # posts)
    /\ UNCHANGED <<comments, replies, likes, comment_likes, reply_likes, notifications,
                   next_reply, histVars, calls, fsVars>>

UserPostDetail_delete(q) ==
    \/ UserPostDetail_check(q)
    \/ UserPostDetail_likes(q)
    \/ UserPostDetail_find_comments(q)
    \/ UserPostDetail_comment_likes(q)
    \/ UserPostDetail_find_replies(q)
    \/ UserPostDetail_reply_likes(q)
    \/ UserPostDetail_replies(q)
    \/ UserPostDetail_comments(q)
    \/ UserPostDetail_notifications(q)
    \/ UserPostDetail_post(q)

\* the storage calls of the cascade, in the order the handler makes them
CascadeSteps == <<"likes", "find_comments", "comment_likes", "find_replies",
                  "reply_likes", "replies", "comments", "notifications", "post">>

\* except Exception: a storage call of the handler raises; nothing is rolled back: 500
UserPostDetail_abort(q) ==
    /\ req[q].op = "deletePost"
    /\ \E i \in DOMAIN CascadeSteps : req[q].pc = CascadeSteps[i]
    /\ Respond(q, 500)
    /\ UNCHANGED <<mongoVars, histVars, calls, fsVars>>

----------------------------------------------------------------------------
(* src/routes/profile_posts.py: UserPostDetail.put, PUT /api/profile/posts/<post_id>  *)

\* an entry of a post's "files" list
FileRef(i) == [file_id |-> i]
NewFileIds == {"n1", "n2"}
FileLists == {<<>>, <<FileRef("f1")>>, <<FileRef("f1"), FileRef("f2")>>,
              <<FileRef("f2"), FileRef("f1")>>}

\* request.form.getlist('existing_files') when the field is there
ExistingFiles == {<<"">>, <<"f1">>, <<"f2">>, <<"f2", "f1">>, <<" ", "f2">>}

\* the request: whether title, description, tech_stack and github_link pass their
\* checks, how many named files are attached, and the existing_files field if any
EditForms ==
    {[valid |-> v, files |-> n] : v \in BOOLEAN, n \in 0..2}
    \cup {[valid |-> v, files |-> n, existing_files |-> l] :
             v \in BOOLEAN, n \in 0..2, l \in ExistingFiles}

\* what upload_files_to_gridfs can return for n files: references under ids GridFS
\* has not used for this post yet
Uploaded(n, current_files) ==
    LET free == {i \in NewFileIds : \A k \in DOMAIN current_files :
                                       current_files[k].file_id # i}
    IN IF n = 1 THEN {<<FileRef(i)>> : i \in free}
       ELSE {s \in {<<FileRef(i), FileRef(j)>> : i \in free, j \in free} : s[1] # s[2]}

\* [fid for fid in existing_files_to_keep if fid and fid.strip()], then
\* [f for f in current_files if f["file_id"] in existing_files_to_keep]
files_to_keep(current_files, form) ==
    IF "existing_files" \notin DOMAIN form THEN current_files
    ELSE LET Named(fid) == Strip(fid) # ""
             keep == SelectSeq(form.existing_files, Named)
             Kept(f) == \E k \in DOMAIN keep : keep[k] = f.file_id
         IN SelectSeq(current_files, Kept)

UserPostDetail_put_begin(q, u, p, form) ==
    /\ req[q].pc = "idle"
    /\ req' = [req EXCEPT ![q] = [Idle EXCEPT !.pc = "begin", !.op = "editPost",
                                   !.user = u, !.id = p, !.update = form]]
    /\ calls' = calls + 1
    /\ UNCHANGED <<mongoVars, histVars, fsVars>>

\* post = mongo.db.posts.find_one({_id, user_id}): 404 without it;
\* current_files = post.get("files", [])
UserPostDetail_put_find(q) ==
    LET p == req[q].id IN
    /\ At(q, "editPost", "begin")
    /\ IF posts[p].exists /\ posts[p].user_id = req[q].user
         THEN req' = [req EXCEPT ![q].pc = "validate", ![q].files = posts[p].files]
         ELSE Respond(q, 404)
    /\ UNCHANGED <<mongoVars, histVars, calls, fsVars>>

\* the checks of title, description, tech_stack and github_link: 400 when one fails
UserPostDetail_put_validate(q) ==
    /\ At(q, "editPost", "validate")
    /\ IF ~req[q].update.valid THEN Respond(q, 400)
       ELSE Goto(q, IF req[q].update.files > 0 THEN "upload" ELSE "update")
    /\ UNCHANGED <<mongoVars, histVars, calls, fsVars>>

\* success, error_msg, uploaded_files = upload_files_to_gridfs(files, user_id, 10):
\* 400 on failure, else new_files = uploaded_files
UserPostDetail_put_upload(q) ==
    /\ At(q, "editPost", "upload")
    /\ \/ Respond(q, 400)
       \/ \E uploaded_files \in Uploaded(req[q].update.files, req[q].files) :
             req' = [req EXCEPT ![q].pc = "update", ![q].new_files = uploaded_files]
    /\ UNCHANGED <<mongoVars, histVars, calls, fsVars>>

\* faulty variant: the uploads are appended to the current list, not to the kept one
UserPostDetail_put_update_current(q) ==
    LET p == req[q].id
        form == req[q].update
    IN /\ At(q, "editPost", "update")
       /\ posts' = IF req[q].new_files # <<>>
                     THEN [posts EXCEPT ![p].files = req[q].files \o req[q].new_files]
                     ELSE IF "existing_files" \in DOMAIN form
                       THEN [posts EXCEPT ![p].files = files_to_keep(req[q].files, form)]
                       ELSE posts
       /\ GotoW(q, "read", posts' # posts)
       /\ UNCHANGED <<comments, replies, likes, comment_likes, reply_likes, notifications,
                      next_reply, histVars, calls, fsVars>>

\* update_data["files"] = files_to_keep + new_files, set when existing_files is in
\* the form or files were uploaded; mongo.db.posts.update_one({_id}, {$set: update_data})
UserPostDetail_put_update(q) ==
    LET p == req[q].id
        form == req[q].update
    IN /\ At(q, "editPost", "update")
       /\ posts' = IF "existing_files" \in DOMAIN form \/ req[q].new_files # <<>>
                     THEN [posts EXCEPT ![p].files =
                              files_to_keep(req[q].files, form) \o req[q].new_files]
                     ELSE posts
       /\ GotoW(q, "read", posts' # posts)
       /\ UNCHANGED <<comments, replies, likes, comment_likes, reply_likes, notifications,
                      next_reply, histVars, calls, fsVars>>

\* updated_post = mongo.db.posts.find_one({_id}): 200
UserPostDetail_put_read(q) ==
    /\ At(q, "editPost", "read")
    /\ Respond(q, 200)
    /\ UNCHANGED <<mongoVars, histVars, calls, fsVars>>

UserPostDetail_put(q) ==
    \/ UserPostDetail_put_find(q)
    \/ UserPostDetail_put_validate(q)
    \/ UserPostDetail_put_upload(q)
    \/ UserPostDetail_put_update(q)
    \/ UserPostDetail_put_read(q)

----------------------------------------------------------------------------
(* app/services/firebase.py: documents carry the id Firestore generated for them *)

\* create_document(collection, data): a new document under a fresh id
create_document(S, data) == S \cup {data}

\* delete_document(collection, doc_id): deleting an absent document succeeds too
delete_document(S, doc_id) == {x \in S : x.id # doc_id}

\* doc_ref.update(data): the fields data names are overwritten, the others stay
Merge(doc, data) == [k \in DOMAIN doc |-> IF k \in DOMAIN data THEN data[k] ELSE doc[k]]

\* update_document(collection, doc_id, data)
update_document(S, doc_id, data) == {IF x.id = doc_id THEN Merge(x, data) ELSE x : x \in S}

\* a document of 'comments': a comment, or a reply when parentId is set
FsComment(u, p, parent) ==
    [exists |-> TRUE, userId |-> u, postId |-> p, parentId |-> parent, deleted |-> FALSE]
NoFsComment ==
    [exists |-> FALSE, userId |-> NoId, postId |-> NoId, parentId |-> NoId,
     deleted |-> FALSE]

\* names are strings of characters; the empty string stands for None and for a
\* field that is not there
NoName == <<>>
AUser == <<"A", " ", "u", "s", "e", "r">>
DisplayNames == {NoName, <<"d">>, <<"e">>}
Usernames == {NoName, <<"u">>, <<"v">>}
Emails == {NoName, <<"m", "@", "x">>, <<"m", "n", "@", "x">>}

\* a document of 'users', and the absent one
Profile(d, n) == [exists |-> TRUE, displayName |-> d, username |-> n]
NoProfile == [exists |-> FALSE, displayName |-> NoName, username |-> NoName]
Profiles == {NoProfile} \cup {Profile(d, n) : d \in DisplayNames, n \in Usernames}

\* a Firebase Auth user record; auth.get_user raises for the absent one
AuthUser(d, e) == [exists |-> TRUE, display_name |-> d, email |-> e]
NoAuthUser == [exists |-> FALSE, display_name |-> NoName, email |-> NoName]
AuthRecords == {NoAuthUser} \cup {AuthUser(d, e) : d \in DisplayNames, e \in Emails}

\* the Auth records of the fixture
AuthUsers ==
    [u \in Users |-> IF u = "A" THEN AuthUser(<<"d">>, <<"m", "@", "x">>)
                     ELSE IF u = "B" THEN AuthUser(NoName, <<"m", "n", "@", "x">>)
                     ELSE NoAuthUser]

FsLike(i, u, p) == [id |-> i, userId |-> u, postId |-> p]
FsCommentLike(i, u, c) == [id |-> i, userId |-> u, commentId |-> c]
FsNotification(i, rcp, snd, t, p, c) ==
    [id |-> i, recipientId |-> rcp, senderId |-> snd, type |-> t, postId |-> p,
     commentId |-> c, senderName |-> NoName, read |-> FALSE]

----------------------------------------------------------------------------
(* app/utils/user.py *)

\* email.split('@')[0]: the characters before the first '@', all of them without one
RECURSIVE split_at(_)
split_at(email) ==
    IF email = <<>> \/ Head(email) = "@" THEN <<>>
    ELSE <<Head(email)>> \o split_at(Tail(email))

\* faulty variant: the profile's username is preferred to its displayName
get_user_display_name_username_first(user_id) ==
    LET user_data == fs_users[user_id]
        auth_user == fs_auth[user_id]
    IN IF user_data.exists /\ user_data.username # NoName THEN user_data.username
       ELSE IF user_data.exists /\ user_data.displayName # NoName THEN user_data.displayName
       ELSE IF ~auth_user.exists THEN AUser
       ELSE IF auth_user.display_name # NoName THEN auth_user.display_name
       ELSE IF auth_user.email # NoName THEN split_at(auth_user.email)
       ELSE AUser

\* get_user_display_name(user_id): the profile's displayName, else its username, else
\* the Auth record's display_name, else the local part of its email; "A user" when
\* auth.get_user raises or nothing is set
get_user_display_name(user_id) ==
    LET user_data == fs_users[user_id]
        auth_user == fs_auth[user_id]
    IN IF user_data.exists /\ user_data.displayName # NoName THEN user_data.displayName
       ELSE IF user_data.exists /\ user_data.username # NoName THEN user_data.username
       ELSE IF ~auth_user.exists THEN AUser
       ELSE IF auth_user.display_name # NoName THEN auth_user.display_name
       ELSE IF auth_user.email # NoName THEN split_at(auth_user.email)
       ELSE AUser

\* a caller of get_user_display_name(user_id), on its own
get_user_display_name_call(q, user_id) ==
    /\ req[q].pc = "idle"
    /\ req' = [req EXCEPT ![q] = [Idle EXCEPT !.pc = "done", !.op = "getUserDisplayName",
                                   !.id = user_id,
                                   !.name = get_user_display_name(user_id)]]
    /\ UNCHANGED <<mongoVars, histVars, calls, fsVars>>

\* create_notification: nothing without a recipient or a sender, nothing when the
\* sender is the recipient; otherwise one document, carrying the sender's name
fs_create_notification(N, i, rcp, snd, t, p, c) ==
    IF rcp = NoId \/ snd = NoId THEN N
    ELSE IF rcp = snd THEN N
    ELSE create_document(N, [FsNotification(i, rcp, snd, t, p, c)
                                EXCEPT !.senderName = get_user_display_name(snd)])

\* faulty variant: only the comment filter is applied
fs_delete_notifications_by_comment(N, snd, c, t) ==
    IF snd = NoId /\ c = NoId /\ t = NoId THEN N
    ELSE {x \in N : ~(c # NoId => x.commentId = c)}

\* delete_notifications(sender_id, comment_id, notification_type): a filter that is
\* not given (None) is not applied, nothing is deleted without any filter, every
\* match goes
fs_delete_notifications(N, snd, c, t) ==
    IF snd = NoId /\ c = NoId /\ t = NoId THEN N
    ELSE {x \in N : ~(/\ snd # NoId => x.senderId = snd
                      /\ c # NoId => x.commentId = c
                      /\ t # NoId => x.type = t)}

----------------------------------------------------------------------------
(* app/utils/auth.py *)

\* faulty variant: the token is taken at its word
verify_token_unverified(header) ==
    IF header = NoHeader \/ header.scheme # "Bearer" THEN NoId ELSE header.token

\* verify_token(request): None without a header, None unless it starts with 'Bearer ',
\* None when auth.verify_id_token(token) raises, else the token's uid
verify_token(header) ==
    IF header = NoHeader \/ header.scheme # "Bearer" THEN NoId
    ELSE IF header.token \notin Users THEN NoId
    ELSE header.token

\* a request arrives at a Firestore endpoint; user is what verify_token will give
FsBegin(q, method, header, target) ==
    /\ req[q].pc = "idle"
    /\ req' = [req EXCEPT ![q] = [Idle EXCEPT !.pc = "begin", !.op = method,
                                              !.auth = header,
                                              !.user = verify_token(header),
                                              !.id = target]]
    /\ calls' = calls + 1
    /\ UNCHANGED <<mongoVars, histVars, fsVars>>

----------------------------------------------------------------------------
(* app/routes/posts.py: post_likes, POST and DELETE /api/posts/<post_id>/likes *)

fs_post_likes_begin(q, method, header, p) == FsBegin(q, method, header, p)

\* user = verify_token(request): 401 without one;
\* post_data = get_document('posts', post_id): 404 without it
fs_post_likes_get(q) ==
    /\ req[q].op \in {"fsLikePost", "fsUnlikePost"}
    /\ req[q].pc = "begin"
    /\ IF req[q].user = NoId THEN Respond(q, 401)
       ELSE IF fs_posts[req[q].id].exists THEN Goto(q, "query") ELSE Respond(q, 404)
    /\ UNCHANGED <<mongoVars, histVars, calls, fsVars>>

\* faulty variant: POST does not look for an existing like
fs_post_likes_query_unchecked(q) ==
    LET found == {x \in fs_likes : x.postId = req[q].id /\ x.userId = req[q].user} IN
    /\ req[q].op \in {"fsLikePost", "fsUnlikePost"}
    /\ req[q].pc = "query"
    /\ IF req[q].op = "fsLikePost" THEN Goto(q, "create")
         ELSE IF found = {} THEN Respond(q, 404)
              ELSE \E x \in found : req' = [req EXCEPT ![q].pc = "delete", ![q].rid = x.id]
    /\ UNCHANGED <<mongoVars, histVars, calls, fsVars>>

\* POST: existing_likes = query_documents('likes', postId ==, userId ==): 400 if any
\* DELETE: likes = query_documents(...): 404 if none, else likes[0] is deleted
fs_post_likes_query(q) ==
    LET found == {x \in fs_likes : x.postId = req[q].id /\ x.userId = req[q].user} IN
    /\ req[q].op \in {"fsLikePost", "fsUnlikePost"}
    /\ req[q].pc = "query"
    /\ IF req[q].op = "fsLikePost"
         THEN IF found # {} THEN Respond(q, 400) ELSE Goto(q, "create")
         ELSE IF found = {} THEN Respond(q, 404)
              ELSE \E x \in found : req' = [req EXCEPT ![q].pc = "delete", ![q].rid = x.id]
    /\ UNCHANGED <<mongoVars, histVars, calls, fsVars>>

\* doc_id = create_document('likes', like_data): 201
fs_post_likes_create(q) ==
    /\ At(q, "fsLikePost", "create")
    /\ fs_likes' = create_document(fs_likes, FsLike(fs_next, req[q].user, req[q].id))
    /\ fs_next' = fs_next + 1
    /\ RespondW(q, 201, fs_likes' # fs_likes)
    /\ UNCHANGED <<mongoVars, profileVars, histVars, calls, fs_posts, fs_comments, fs_commentLikes,
                   fs_notifications>>

\* delete_document('likes', likes[0]['id']): 200
fs_post_likes_delete(q) ==
    /\ At(q, "fsUnlikePost", "delete")
    /\ fs_likes' = delete_document(fs_likes, req[q].rid)
    /\ RespondW(q, 200, fs_likes' # fs_likes)
    /\ UNCHANGED <<mongoVars, profileVars, histVars, calls, fs_posts, fs_comments, fs_commentLikes,
                   fs_notifications, fs_next>>

fs_post_likes(q) ==
    \/ fs_post_likes_get(q)
    \/ fs_post_likes_query(q)
    \/ fs_post_likes_create(q)
    \/ fs_post_likes_delete(q)

----------------------------------------------------------------------------
(* app/routes/comments.py: comment_likes, POST and DELETE /api/comments/<id>/likes *)

fs_comment_likes_begin(q, method, header, c) == FsBegin(q, method, header, c)

\* user = verify_token(request): 401 without one;
\* comment_data = get_document('comments', comment_id): 404 without it
fs_comment_likes_get(q) ==
    LET c == req[q].id IN
    /\ req[q].op \in {"fsLikeComment", "fsUnlikeComment"}
    /\ req[q].pc = "begin"
    /\ IF req[q].user = NoId THEN Respond(q, 401)
       ELSE IF fs_comments[c].exists
         THEN req' = [req EXCEPT ![q].pc = "query", ![q].owner = fs_comments[c].userId,
                                 ![q].post = fs_comments[c].postId]
         ELSE Respond(q, 404)
    /\ UNCHANGED <<mongoVars, histVars, calls, fsVars>>

\* POST: existing_likes = query_documents('commentLikes', ...): 400 if any
\* DELETE: likes = query_documents(...): 404 if none, else likes[0] is deleted
fs_comment_likes_query(q) ==
    LET found == {x \in fs_commentLikes :
                     x.commentId = req[q].id /\ x.userId = req[q].user} IN
    /\ req[q].op \in {"fsLikeComment", "fsUnlikeComment"}
    /\ req[q].pc = "query"
    /\ IF req[q].op = "fsLikeComment"
         THEN IF found # {} THEN Respond(q, 400) ELSE Goto(q, "create")
         ELSE IF found = {} THEN Respond(q, 404)
              ELSE \E x \in found : req' = [req EXCEPT ![q].pc = "delete", ![q].rid = x.id]
    /\ UNCHANGED <<mongoVars, histVars, calls, fsVars>>

\* doc_id = create_document('commentLikes', like_data); 201 at once on a self-like
fs_comment_likes_create(q) ==
    /\ At(q, "fsLikeComment", "create")
    /\ fs_commentLikes' = create_document(fs_commentLikes,
                                          FsCommentLike(fs_next, req[q].user, req[q].id))
    /\ fs_next' = fs_next + 1
    /\ IF req[q].owner # NoId /\ req[q].owner # req[q].user
         THEN GotoW(q, "notify", fs_commentLikes' # fs_commentLikes)
         ELSE RespondW(q, 201, fs_commentLikes' # fs_commentLikes)
    /\ UNCHANGED <<mongoVars, profileVars, histVars, calls, fs_posts, fs_comments, fs_likes,
                   fs_notifications>>

\* create_notification(recipient_id=comment owner, sender_id=caller, ...): 201
fs_comment_likes_notify(q) ==
    /\ At(q, "fsLikeComment", "notify")
    /\ fs_notifications' = fs_create_notification(fs_notifications, fs_next, req[q].owner,
                               req[q].user, "comment_like", req[q].post, req[q].id)
    /\ fs_next' = fs_next + 1
    /\ RespondW(q, 201, fs_notifications' # fs_notifications)
    /\ UNCHANGED <<mongoVars, profileVars, histVars, calls, fs_posts, fs_comments, fs_likes,
                   fs_commentLikes>>

\* delete_document('commentLikes', likes[0]['id'])
fs_comment_likes_delete(q) ==
    /\ At(q, "fsUnlikeComment", "delete")
    /\ fs_commentLikes' = delete_document(fs_commentLikes, req[q].rid)
    /\ GotoW(q, "unnotify", fs_commentLikes' # fs_commentLikes)
    /\ UNCHANGED <<mongoVars, profileVars, histVars, calls, fs_posts, fs_comments, fs_likes,
                   fs_notifications, fs_next>>

\* delete_notifications(sender_id=caller, comment_id, 'comment_like'): 200
fs_comment_likes_unnotify(q) ==
    /\ At(q, "fsUnlikeComment", "unnotify")
    /\ fs_notifications' = fs_delete_notifications(fs_notifications, req[q].user,
                                                   req[q].id, "comment_like")
    /\ RespondW(q, 200, fs_notifications' # fs_notifications)
    /\ UNCHANGED <<mongoVars, profileVars, histVars, calls, fs_posts, fs_comments, fs_likes,
                   fs_commentLikes, fs_next>>

fs_comment_likes(q) ==
    \/ fs_comment_likes_get(q)
    \/ fs_comment_likes_query(q)
    \/ fs_comment_likes_create(q)
    \/ fs_comment_likes_notify(q)
    \/ fs_comment_likes_delete(q)
    \/ fs_comment_likes_unnotify(q)

----------------------------------------------------------------------------
(* app/routes/users.py: create_notification, POST /api/users/notifications/create,    *)
(* which app/__init__.py also routes as POST /api/notifications                       *)

users_create_notification_begin(q, header, rcp, snd) ==
    /\ req[q].pc = "idle"
    /\ req' = [req EXCEPT ![q] = [Idle EXCEPT !.pc = "begin", !.op = "fsCreateNotification",
                                   !.auth = header, !.user = verify_token(header),
                                   !.body = [recipientId |-> rcp, senderId |-> snd]]]
    /\ calls' = calls + 1
    /\ UNCHANGED <<mongoVars, histVars, fsVars>>

\* user = verify_token(request): 401 without one
users_create_notification_verify(q) ==
    /\ At(q, "fsCreateNotification", "begin")
    /\ IF req[q].user = NoId THEN Respond(q, 401) ELSE Goto(q, "create")
    /\ UNCHANGED <<mongoVars, histVars, calls, fsVars>>

\* doc_id = create_document('notifications', request.json)
users_create_notification_create(q) ==
    /\ At(q, "fsCreateNotification", "create")
    /\ fs_notifications' = create_document(fs_notifications,
           FsNotification(fs_next, req[q].body.recipientId, req[q].body.senderId,
                          "like", NoId, NoId))
    /\ fs_next' = fs_next + 1
    /\ GotoW(q, "get", fs_notifications' # fs_notifications)
    /\ UNCHANGED <<mongoVars, profileVars, histVars, calls, fs_posts, fs_comments, fs_likes,
                   fs_commentLikes>>

\* response_data = get_document('notifications', doc_id): 201
users_create_notification_get(q) ==
    /\ At(q, "fsCreateNotification", "get")
    /\ Respond(q, 201)
    /\ UNCHANGED <<mongoVars, histVars, calls, fsVars>>

users_create_notification(q) ==
    \/ users_create_notification_verify(q)
    \/ users_create_notification_create(q)
    \/ users_create_notification_get(q)

----------------------------------------------------------------------------
(* app/routes/comments.py: post_comments GET and comment_replies GET, what a client *)
(* is shown                                                                         *)

\* GET /api/comments/<post_id>: query_documents('comments', [('postId', '==', post_id)])
post_comments_get(p) ==
    {c \in DOMAIN fs_comments : fs_comments[c].exists /\ fs_comments[c].postId = p}

\* GET /api/comments/<comment_id>/replies:
\* query_documents('comments', [('parentId', '==', comment_id)])
comment_replies_get(c) ==
    {r \in DOMAIN fs_comments : fs_comments[r].exists /\ fs_comments[r].parentId = c}

----------------------------------------------------------------------------
(* app/routes/comments.py: comment_replies, POST /api/comments/<comment_id>/replies *)

FreeFsReplies == {r \in FsReplies : ~fs_comments[r].exists}

\* a document id is left for every reply that is still to be created
FsReplyIdLeft ==
    Cardinality(FreeFsReplies)
        > Cardinality({q \in Procs : req[q].op = "fsAddReply"
                                      /\ req[q].pc \in {"begin", "create"}})

comment_replies_begin(q, header, c) ==
    /\ FsReplyIdLeft
    /\ FsBegin(q, "fsAddReply", header, c)

\* user = verify_token(request): 401 without one;
\* comment = comment_ref.get(): 404 unless it exists
comment_replies_comment(q) ==
    LET c == req[q].id IN
    /\ At(q, "fsAddReply", "begin")
    /\ IF req[q].user = NoId THEN Respond(q, 401)
       ELSE IF ~fs_comments[c].exists THEN Respond(q, 404)
       ELSE req' = [req EXCEPT ![q].pc = "create", ![q].owner = fs_comments[c].userId,
                               ![q].post = fs_comments[c].postId]
    /\ UNCHANGED <<mongoVars, histVars, calls, fsVars>>

\* doc_id = create_document('comments', reply_data) with userId, parentId, postId
comment_replies_create(q) ==
    /\ At(q, "fsAddReply", "create")
    /\ \E r \in FreeFsReplies :
          /\ fs_comments' = [fs_comments EXCEPT
                               ![r] = FsComment(req[q].user, req[q].post, req[q].id)]
          /\ req' = [req EXCEPT ![q].pc = "read", ![q].cids = {r}, ![q].wrote = TRUE]
    /\ UNCHANGED <<mongoVars, profileVars, histVars, calls, fs_posts, fs_likes, fs_commentLikes,
                   fs_notifications, fs_next>>

\* response_data = get_document('comments', doc_id); 201 at once on a self-reply
comment_replies_read(q) ==
    /\ At(q, "fsAddReply", "read")
    /\ IF req[q].owner # NoId /\ req[q].owner # req[q].user
         THEN Goto(q, "get_post") ELSE Respond(q, 201)
    /\ UNCHANGED <<mongoVars, histVars, calls, fsVars>>

\* post_data = get_document('posts', comment_data.get('postId')), for the title
comment_replies_get_post(q) ==
    /\ At(q, "fsAddReply", "get_post")
    /\ Goto(q, "notify")
    /\ UNCHANGED <<mongoVars, histVars, calls, fsVars>>

\* create_notification(recipient_id=comment owner, sender_id=caller,
\* comment_id=comment_id, notification_type='reply'): 201
comment_replies_notify(q) ==
    /\ At(q, "fsAddReply", "notify")
    /\ fs_notifications' = fs_create_notification(fs_notifications, fs_next, req[q].owner,
                               req[q].user, "reply", req[q].post, req[q].id)
    /\ fs_next' = fs_next + 1
    /\ RespondW(q, 201, fs_notifications' # fs_notifications)
    /\ UNCHANGED <<mongoVars, profileVars, histVars, calls, fs_posts, fs_comments, fs_likes,
                   fs_commentLikes>>

comment_replies(q) ==
    \/ comment_replies_comment(q)
    \/ comment_replies_create(q)
    \/ comment_replies_read(q)
    \/ comment_replies_get_post(q)
    \/ comment_replies_notify(q)

----------------------------------------------------------------------------
(* app/routes/comments.py: comment_operations, DELETE /api/comments/<comment_id> *)

\* the commentLikes documents on a comment or reply
FsLikesOn(c) == {x \in fs_commentLikes : x.commentId = c}

\* batch.commit(): the queued updates mark their documents deleted, the queued
\* deletes remove theirs
BatchMarked(C, refs) ==
    [c \in DOMAIN C |-> IF c \in refs /\ C[c].exists THEN [C[c] EXCEPT !.deleted = TRUE]
                        ELSE C[c]]
BatchDeleted(S, ids) == {x \in S : x.id \notin ids}

comment_operations_begin(q, header, c) == FsBegin(q, "fsDeleteComment", header, c)

\* user = verify_token(request): 401; comment = comment_ref.get(): 404 unless it
\* exists; comment_data['userId'] != user_id: 403; batch.update(comment_ref, deleted)
comment_operations_comment(q) ==
    LET c == req[q].id IN
    /\ At(q, "fsDeleteComment", "begin")
    /\ IF req[q].user = NoId THEN Respond(q, 401)
       ELSE IF ~fs_comments[c].exists THEN Respond(q, 404)
       ELSE IF fs_comments[c].userId # req[q].user THEN Respond(q, 403)
       ELSE req' = [req EXCEPT ![q].pc = "unnotify", ![q].cids = {c}]
    /\ UNCHANGED <<mongoVars, histVars, calls, fsVars>>

\* delete_notifications(comment_id=comment_id)
comment_operations_unnotify(q) ==
    /\ At(q, "fsDeleteComment", "unnotify")
    /\ fs_notifications' = fs_delete_notifications(fs_notifications, NoId, req[q].id, NoId)
    /\ GotoW(q, "find_replies", fs_notifications' # fs_notifications)
    /\ UNCHANGED <<mongoVars, profileVars, histVars, calls, fs_posts, fs_comments, fs_likes,
                   fs_commentLikes, fs_next>>

\* replies = query_documents('comments', [('parentId', '==', comment_id)])
comment_operations_find_replies(q) ==
    /\ At(q, "fsDeleteComment", "find_replies")
    /\ req' = [req EXCEPT ![q].pc = "reply", ![q].rids = comment_replies_get(req[q].id)]
    /\ UNCHANGED <<mongoVars, histVars, calls, fsVars>>

\* for reply in replies: batch.update(reply_ref, deleted);
\* delete_notifications(comment_id=reply['id']); the reply's likes are queued for
\* deletion, with delete_notifications(comment_id=reply['id'], 'comment_like') for each
comment_operations_reply(q) ==
    /\ At(q, "fsDeleteComment", "reply")
    /\ req[q].rids # {}
    /\ \E r \in req[q].rids :
          /\ fs_notifications' = fs_delete_notifications(fs_notifications, NoId, r, NoId)
          /\ req' = [req EXCEPT ![q].rids = @ \ {r}, ![q].cids = @ \cup {r},
                                ![q].batch = @ \cup {x.id : x \in FsLikesOn(r)},
                                ![q].wrote = @ \/ fs_notifications' # fs_notifications]
    /\ UNCHANGED <<mongoVars, profileVars, histVars, calls, fs_posts, fs_comments, fs_likes,
                   fs_commentLikes, fs_next>>

\* comment_likes = query_documents('commentLikes', [('commentId', '==', comment_id)]):
\* each is queued for deletion, with
\* delete_notifications(comment_id=comment_id, notification_type='comment_like')
comment_operations_likes(q) ==
    LET found == FsLikesOn(req[q].id) IN
    /\ At(q, "fsDeleteComment", "reply")
    /\ req[q].rids = {}
    /\ fs_notifications' = IF found = {} THEN fs_notifications
                           ELSE fs_delete_notifications(fs_notifications, NoId, req[q].id,
                                                        "comment_like")
    /\ req' = [req EXCEPT ![q].pc = "commit", ![q].batch = @ \cup {x.id : x \in found},
                          ![q].wrote = @ \/ fs_notifications' # fs_notifications]
    /\ UNCHANGED <<mongoVars, profileVars, histVars, calls, fs_posts, fs_comments, fs_likes,
                   fs_commentLikes, fs_next>>

\* batch.commit(): 200
comment_operations_commit(q) ==
    /\ At(q, "fsDeleteComment", "commit")
    /\ fs_comments' = BatchMarked(fs_comments, req[q].cids)
    /\ fs_commentLikes' = BatchDeleted(fs_commentLikes, req[q].batch)
    /\ RespondW(q, 200, <<fs_comments, fs_commentLikes>>' # <<fs_comments, fs_commentLikes>>)
    /\ UNCHANGED <<mongoVars, profileVars, histVars, calls, fs_posts, fs_likes, fs_notifications,
                   fs_next>>

comment_operations(q) ==
    \/ comment_operations_comment(q)
    \/ comment_operations_unnotify(q)
    \/ comment_operations_find_replies(q)
    \/ comment_operations_reply(q)
    \/ comment_operations_likes(q)
    \/ comment_operations_commit(q)

----------------------------------------------------------------------------
(* app/routes/comments.py: reply_operations, DELETE /api/comments/replies/<reply_id> *)

reply_operations_begin(q, header, r) == FsBegin(q, "fsDeleteReply", header, r)

\* user = verify_token(request): 401; reply = reply_ref.get(): 404 unless it exists;
\* reply_data['userId'] != user_id: 403; batch.update(reply_ref, deleted)
reply_operations_reply(q) ==
    LET r == req[q].id IN
    /\ At(q, "fsDeleteReply", "begin")
    /\ IF req[q].user = NoId THEN Respond(q, 401)
       ELSE IF ~fs_comments[r].exists THEN Respond(q, 404)
       ELSE IF fs_comments[r].userId # req[q].user THEN Respond(q, 403)
       ELSE req' = [req EXCEPT ![q].pc = "unnotify", ![q].cids = {r}]
    /\ UNCHANGED <<mongoVars, histVars, calls, fsVars>>

\* delete_notifications(comment_id=reply_id)
reply_operations_unnotify(q) ==
    /\ At(q, "fsDeleteReply", "unnotify")
    /\ fs_notifications' = fs_delete_notifications(fs_notifications, NoId, req[q].id, NoId)
    /\ GotoW(q, "likes", fs_notifications' # fs_notifications)
    /\ UNCHANGED <<mongoVars, profileVars, histVars, calls, fs_posts, fs_comments, fs_likes,
                   fs_commentLikes, fs_next>>

\* likes = query_documents('commentLikes', [('commentId', '==', reply_id)]): each is
\* queued for deletion, with delete_notifications(comment_id=reply_id, 'comment_like')
reply_operations_likes(q) ==
    LET found == FsLikesOn(req[q].id) IN
    /\ At(q, "fsDeleteReply", "likes")
    /\ fs_notifications' = IF found = {} THEN fs_notifications
                           ELSE fs_delete_notifications(fs_notifications, NoId, req[q].id,
                                                        "comment_like")
    /\ req' = [req EXCEPT ![q].pc = "commit", ![q].batch = {x.id : x \in found},
                          ![q].wrote = @ \/ fs_notifications' # fs_notifications]
    /\ UNCHANGED <<mongoVars, profileVars, histVars, calls, fs_posts, fs_comments, fs_likes,
                   fs_commentLikes, fs_next>>

\* batch.commit(): 200
reply_operations_commit(q) ==
    /\ At(q, "fsDeleteReply", "commit")
    /\ fs_comments' = BatchMarked(fs_comments, req[q].cids)
    /\ fs_commentLikes' = BatchDeleted(fs_commentLikes, req[q].batch)
    /\ RespondW(q, 200, <<fs_comments, fs_commentLikes>>' # <<fs_comments, fs_commentLikes>>)
    /\ UNCHANGED <<mongoVars, profileVars, histVars, calls, fs_posts, fs_likes, fs_notifications,
                   fs_next>>

reply_operations(q) ==
    \/ reply_operations_reply(q)
    \/ reply_operations_unnotify(q)
    \/ reply_operations_likes(q)
    \/ reply_operations_commit(q)

----------------------------------------------------------------------------
(* app/routes/posts.py: post_operations, PUT and DELETE /api/posts/<post_id> *)

\* request.json of a PUT on a post, a comment or a reply: the fields to overwrite;
\* text and title are not part of the modelled documents
PostBodies == {[title |-> "t"], [userId |-> "C"]}
CommentBodies == {[text |-> "t"], [userId |-> "C"], [postId |-> "fp2"],
                  [parentId |-> "fc1"]}

NoFsPost == [exists |-> FALSE, userId |-> NoId]

post_operations_begin(q, method, header, p, data) ==
    /\ req[q].pc = "idle"
    /\ req' = [req EXCEPT ![q] = [Idle EXCEPT !.pc = "begin", !.op = method,
                                   !.auth = header, !.user = verify_token(header),
                                   !.id = p, !.update = data]]
    /\ calls' = calls + 1
    /\ UNCHANGED <<mongoVars, histVars, fsVars>>

\* user = verify_token(request): 401 without one; post_data = get_document('posts',
\* post_id): 404 without it; post_data['userId'] != user['uid']: 403
post_operations_get(q) ==
    LET p == req[q].id IN
    /\ req[q].op \in {"fsPutPost", "fsDeletePost"}
    /\ req[q].pc = "begin"
    /\ IF req[q].user = NoId THEN Respond(q, 401)
       ELSE IF ~fs_posts[p].exists THEN Respond(q, 404)
       ELSE IF fs_posts[p].userId # req[q].user THEN Respond(q, 403)
       ELSE Goto(q, IF req[q].op = "fsPutPost" THEN "update" ELSE "delete")
    /\ UNCHANGED <<mongoVars, histVars, calls, fsVars>>

\* PUT: update_document('posts', post_id, request.json): 200
post_operations_update(q) ==
    /\ At(q, "fsPutPost", "update")
    /\ fs_posts' = [fs_posts EXCEPT ![req[q].id] = Merge(@, req[q].update)]
    /\ RespondW(q, 200, fs_posts' # fs_posts)
    /\ UNCHANGED <<mongoVars, histVars, calls, fs_comments, fs_likes, fs_commentLikes,
                   fs_notifications, fs_next, profileVars>>

\* DELETE: delete_document('posts', post_id)
post_operations_delete(q) ==
    /\ At(q, "fsDeletePost", "delete")
    /\ fs_posts' = [fs_posts EXCEPT ![req[q].id] = NoFsPost]
    /\ GotoW(q, "unnotify", fs_posts' # fs_posts)
    /\ UNCHANGED <<mongoVars, histVars, calls, fs_comments, fs_likes, fs_commentLikes,
                   fs_notifications, fs_next, profileVars>>

\* delete_notifications(post_id=post_id)
post_operations_unnotify(q) ==
    /\ At(q, "fsDeletePost", "unnotify")
    /\ fs_notifications' = {x \in fs_notifications : x.postId # req[q].id}
    /\ GotoW(q, "find_comments", fs_notifications' # fs_notifications)
    /\ UNCHANGED <<mongoVars, histVars, calls, fs_posts, fs_comments, fs_likes,
                   fs_commentLikes, fs_next, profileVars>>

\* comments = query_documents('comments', [('postId', '==', post_id)])
post_operations_find_comments(q) ==
    /\ At(q, "fsDeletePost", "find_comments")
    /\ req' = [req EXCEPT ![q].pc = "comment", ![q].rids = post_comments_get(req[q].id)]
    /\ UNCHANGED <<mongoVars, histVars, calls, fsVars>>

\* for comment in comments: the query on 'replies', a collection nothing is stored
\* in, finds nothing; the comment's commentLikes and the comment are queued for
\* deletion
post_operations_comment(q) ==
    /\ At(q, "fsDeletePost", "comment")
    /\ req[q].rids # {}
    /\ \E c \in req[q].rids :
          req' = [req EXCEPT ![q].rids = @ \ {c}, ![q].cids = @ \cup {c},
                             ![q].batch = @ \cup {x.id : x \in FsLikesOn(c)}]
    /\ UNCHANGED <<mongoVars, histVars, calls, fsVars>>

\* likes = query_documents('likes', [('postId', '==', post_id)]): each is queued
post_operations_likes(q) ==
    /\ At(q, "fsDeletePost", "comment")
    /\ req[q].rids = {}
    /\ req' = [req EXCEPT ![q].pc = "commit",
                          ![q].batch = @ \cup {x.id : x \in {y \in fs_likes :
                                                               y.postId = req[q].id}}]
    /\ UNCHANGED <<mongoVars, histVars, calls, fsVars>>

\* batch.commit(): 200
post_operations_commit(q) ==
    /\ At(q, "fsDeletePost", "commit")
    /\ fs_comments' = [c \in DOMAIN fs_comments |->
                         IF c \in req[q].cids THEN NoFsComment ELSE fs_comments[c]]
    /\ fs_commentLikes' = BatchDeleted(fs_commentLikes, req[q].batch)
    /\ fs_likes' = BatchDeleted(fs_likes, req[q].batch)
    /\ RespondW(q, 200, <<fs_comments, fs_commentLikes, fs_likes>>'
                           # <<fs_comments, fs_commentLikes, fs_likes>>)
    /\ UNCHANGED <<mongoVars, histVars, calls, fs_posts, fs_notifications, fs_next,
                   profileVars>>

post_operations(q) ==
    \/ post_operations_get(q)
    \/ post_operations_update(q)
    \/ post_operations_delete(q)
    \/ post_operations_unnotify(q)
    \/ post_operations_find_comments(q)
    \/ post_operations_comment(q)
    \/ post_operations_likes(q)
    \/ post_operations_commit(q)

----------------------------------------------------------------------------
(* app/routes/comments.py: comment_operations PUT /api/comments/<comment_id> and      *)
(* reply_operations PUT /api/comments/replies/<reply_id>                              *)

comment_operations_put_begin(q, header, c, data) ==
    /\ req[q].pc = "idle"
    /\ req' = [req EXCEPT ![q] = [Idle EXCEPT !.pc = "begin", !.op = "fsPutComment",
                                   !.auth = header, !.user = verify_token(header),
                                   !.id = c, !.update = data]]
    /\ calls' = calls + 1
    /\ UNCHANGED <<mongoVars, histVars, fsVars>>

\* 401 without a user, 404 unless comment.exists, 403 unless the caller is its userId
comment_operations_put_comment(q) ==
    LET c == req[q].id IN
    /\ At(q, "fsPutComment", "begin")
    /\ IF req[q].user = NoId THEN Respond(q, 401)
       ELSE IF ~fs_comments[c].exists THEN Respond(q, 404)
       ELSE IF fs_comments[c].userId # req[q].user THEN Respond(q, 403)
       ELSE Goto(q, "update")
    /\ UNCHANGED <<mongoVars, histVars, calls, fsVars>>

\* update_document('comments', comment_id, request.json): 200
comment_operations_put_update(q) ==
    /\ At(q, "fsPutComment", "update")
    /\ fs_comments' = [fs_comments EXCEPT ![req[q].id] = Merge(@, req[q].update)]
    /\ RespondW(q, 200, fs_comments' # fs_comments)
    /\ UNCHANGED <<mongoVars, histVars, calls, fs_posts, fs_likes, fs_commentLikes,
                   fs_notifications, fs_next, profileVars>>

comment_operations_put(q) ==
    \/ comment_operations_put_comment(q)
    \/ comment_operations_put_update(q)

reply_operations_put_begin(q, header, r, data) ==
    /\ req[q].pc = "idle"
    /\ req' = [req EXCEPT ![q] = [Idle EXCEPT !.pc = "begin", !.op = "fsPutReply",
                                   !.auth = header, !.user = verify_token(header),
                                   !.id = r, !.update = data]]
    /\ calls' = calls + 1
    /\ UNCHANGED <<mongoVars, histVars, fsVars>>

\* 401 without a user, 404 unless reply.exists, 403 unless the caller is its userId
reply_operations_put_reply(q) ==
    LET r == req[q].id IN
    /\ At(q, "fsPutReply", "begin")
    /\ IF req[q].user = NoId THEN Respond(q, 401)
       ELSE IF ~fs_comments[r].exists THEN Respond(q, 404)
       ELSE IF fs_comments[r].userId # req[q].user THEN Respond(q, 403)
       ELSE Goto(q, "update")
    /\ UNCHANGED <<mongoVars, histVars, calls, fsVars>>

\* reply_ref.update(request.json): 200
reply_operations_put_update(q) ==
    /\ At(q, "fsPutReply", "update")
    /\ fs_comments' = [fs_comments EXCEPT ![req[q].id] = Merge(@, req[q].update)]
    /\ RespondW(q, 200, fs_comments' # fs_comments)
    /\ UNCHANGED <<mongoVars, histVars, calls, fs_posts, fs_likes, fs_commentLikes,
                   fs_notifications, fs_next, profileVars>>

reply_operations_put(q) ==
    \/ reply_operations_put_reply(q)
    \/ reply_operations_put_update(q)

----------------------------------------------------------------------------
(* app/routes/users.py: user_profile, PUT /api/users/profile *)

\* request.json of the PUT: any of displayName and username, each possibly empty
ProfileBodies ==
    {<<>>}
    \cup {[displayName |-> d] : d \in DisplayNames}
    \cup {[username |-> n] : n \in Usernames}
    \cup {[displayName |-> d, username |-> n] : d \in DisplayNames, n \in Usernames}

\* profile_data.get(key)
Get(data, key) == IF key \in DOMAIN data THEN data[key] ELSE NoName

\* faulty variant: the username is preferred
new_name_username_first(data) ==
    IF Get(data, "username") # NoName THEN Get(data, "username")
    ELSE Get(data, "displayName")

\* new_name = display_name if display_name else username
new_name(data) ==
    IF Get(data, "displayName") # NoName THEN Get(data, "displayName")
    ELSE Get(data, "username")

user_profile_begin(q, header, data) ==
    /\ req[q].pc = "idle"
    /\ req' = [req EXCEPT ![q] = [Idle EXCEPT !.pc = "begin", !.op = "fsPutProfile",
                                   !.auth = header, !.user = verify_token(header),
                                   !.update = data]]
    /\ calls' = calls + 1
    /\ UNCHANGED <<mongoVars, histVars, fsVars>>

\* user = verify_token(request): 401 without one;
\* existing = get_document('users', user_id)
user_profile_get(q) ==
    /\ At(q, "fsPutProfile", "begin")
    /\ IF req[q].user = NoId THEN Respond(q, 401)
       ELSE req' = [req EXCEPT ![q].pc = "write",
                               ![q].existing = fs_users[req[q].user].exists]
    /\ UNCHANGED <<mongoVars, histVars, calls, fsVars>>

\* update_document('users', user_id, profile_data), or create_document under the
\* uid; without a displayName or username in the body: 200
user_profile_write(q) ==
    LET u == req[q].user
        data == req[q].update
    IN /\ At(q, "fsPutProfile", "write")
       /\ fs_users' = [fs_users EXCEPT ![u] =
                          IF req[q].existing THEN Merge(@, data)
                          ELSE Merge(Profile(NoName, NoName), data)]
       /\ IF new_name(data) # NoName THEN GotoW(q, "query", fs_users' # fs_users)
          ELSE RespondW(q, 200, fs_users' # fs_users)
       /\ UNCHANGED <<mongoVars, histVars, calls, fs_posts, fs_comments, fs_likes,
                      fs_commentLikes, fs_notifications, fs_next, fs_auth>>

\* notifications = query_documents('notifications', senderId == user_id)
user_profile_query(q) ==
    LET found == {x.id : x \in {y \in fs_notifications : y.senderId = req[q].user}} IN
    /\ At(q, "fsPutProfile", "query")
    /\ IF found = {} THEN Respond(q, 200)
       ELSE req' = [req EXCEPT ![q].pc = "rename", ![q].rids = found]
    /\ UNCHANGED <<mongoVars, histVars, calls, fsVars>>

\* for notification in notifications:
\*     update_document('notifications', notification['id'], {'senderName': new_name})
user_profile_rename(q) ==
    /\ At(q, "fsPutProfile", "rename")
    /\ \E i \in req[q].rids :
          /\ fs_notifications' = update_document(fs_notifications, i,
                                      [senderName |-> new_name(req[q].update)])
          /\ req' = [req EXCEPT ![q].rids = @ \ {i},
                                ![q].wrote = @ \/ fs_notifications' # fs_notifications,
                                ![q].pc = IF req[q].rids = {i} THEN "done" ELSE "rename",
                                ![q].status = IF req[q].rids = {i} THEN 200 ELSE @]
    /\ UNCHANGED <<mongoVars, histVars, calls, fs_posts, fs_comments, fs_likes,
                   fs_commentLikes, fs_next, profileVars>>

user_profile(q) ==
    \/ user_profile_get(q)
    \/ user_profile_write(q)
    \/ user_profile_query(q)
    \/ user_profile_rename(q)

----------------------------------------------------------------------------
(* app/routes/users.py: notification_operations,                                      *)
(* PUT and DELETE /api/users/notifications/<notification_id>                          *)

\* request.json of the PUT: the fields to overwrite
NotificationBodies == {[read |-> TRUE]} \cup {[recipientId |-> u] : u \in Users}

notification_operations_begin(q, method, header, n, data) ==
    /\ req[q].pc = "idle"
    /\ req' = [req EXCEPT ![q] = [Idle EXCEPT !.pc = "begin", !.op = method,
                                   !.auth = header, !.user = verify_token(header),
                                   !.rid = n, !.update = data]]
    /\ calls' = calls + 1
    /\ UNCHANGED <<mongoVars, histVars, fsVars>>

\* faulty variant: the recipient is not compared with the caller
notification_operations_get_any_user(q) ==
    LET found == {x \in fs_notifications : x.id = req[q].rid} IN
    /\ req[q].op \in {"fsPutNotification", "fsDeleteNotification"}
    /\ req[q].pc = "begin"
    /\ IF req[q].user = NoId THEN Respond(q, 401)
       ELSE IF found = {} THEN Respond(q, 404)
       ELSE Goto(q, "write")
    /\ UNCHANGED <<mongoVars, histVars, calls, fsVars>>

\* user = verify_token(request): 401 without one;
\* notification_data = get_document('notifications', notification_id): 404 without
\* it, 403 when its recipientId is not the caller
notification_operations_get(q) ==
    LET found == {x \in fs_notifications : x.id = req[q].rid} IN
    /\ req[q].op \in {"fsPutNotification", "fsDeleteNotification"}
    /\ req[q].pc = "begin"
    /\ IF req[q].user = NoId THEN Respond(q, 401)
       ELSE IF found = {} THEN Respond(q, 404)
       ELSE IF \E x \in found : x.recipientId # req[q].user THEN Respond(q, 403)
       ELSE Goto(q, "write")
    /\ UNCHANGED <<mongoVars, histVars, calls, fsVars>>

\* PUT: update_document('notifications', notification_id, request.json);
\* DELETE: delete_document('notifications', notification_id): 200
notification_operations_write(q) ==
    /\ req[q].op \in {"fsPutNotification", "fsDeleteNotification"}
    /\ req[q].pc = "write"
    /\ fs_notifications' =
         IF req[q].op = "fsPutNotification"
           THEN update_document(fs_notifications, req[q].rid, req[q].update)
           ELSE delete_document(fs_notifications, req[q].rid)
    /\ RespondW(q, 200, fs_notifications' # fs_notifications)
    /\ UNCHANGED <<mongoVars, histVars, calls, fs_posts, fs_comments, fs_likes,
                   fs_commentLikes, fs_next, profileVars>>

notification_operations(q) ==
    \/ notification_operations_get(q)
    \/ notification_operations_write(q)

----------------------------------------------------------------------------
(* State after construction: the fixture's posts and comments, nothing else *)

\* the fixture's posts, each with the given list of file references
InitPosts(files) ==
    posts = [p \in Posts |->
               [exists |-> TRUE, user_id |-> PostOwner[p], likes_count |-> 0,
                comments_count |-> Cardinality({c \in Comments : CommentPost[c] = p}),
                files |-> files]]

\* every other collection, and the workers
InitStores ==
    /\ comments = [c \in Comments |->
                  [exists |-> TRUE, post_id |-> CommentPost[c], user_id |-> CommentOwner[c],
                   replies_count |-> 0]]
    /\ replies = [r \in ReplyIds |-> NoReplyDoc]
    /\ likes = EmptyBag
    /\ comment_likes = EmptyBag
    /\ reply_likes = EmptyBag
    /\ notifications = EmptyBag
    /\ next_reply = 1
    /\ req = [q \in Procs |-> Idle]
    /\ calls = 0
    /\ toggles = [u \in Users, p \in Posts |-> 0]
    /\ added = [c \in Comments |-> 0]
    /\ removed = [c \in Comments |-> 0]
    /\ fs_posts = [p \in FsPosts |-> [exists |-> TRUE, userId |-> FsPostOwner[p]]]
    /\ fs_comments = [c \in FsComments \cup FsReplies |->
                       IF c \in FsComments
                         THEN FsComment(FsCommentOwner[c], FsCommentPost[c], NoId)
                         ELSE NoFsComment]
    /\ fs_likes = {}
    /\ fs_commentLikes = {}
    /\ fs_notifications = {}
    /\ fs_next = 1

Init ==
    /\ InitPosts(<<>>)
    /\ InitStores
    /\ fs_users = [u \in Users |-> NoProfile]
    /\ fs_auth = AuthUsers

\* one request at a time, handled by worker 1
Next ==
    \/ /\ calls < MaxCalls
       /\ \E u \in Users, p \in Posts : PostLike_begin(1, u, p)
    \/ /\ calls < MaxCalls
       /\ \E u \in Users, c \in Comments, text \in Contents :
              CommentReplies_begin(1, u, c, text)
    \/ /\ calls < MaxCalls
       /\ \E u \in Users, r \in 1 .. (next_reply - 1) : ReplyModify_begin(1, u, r)
    \/ /\ calls < MaxCalls
       /\ \E u \in Users, r \in ReplyIds, text \in ReplyBodies :
              ReplyModify_put_begin(1, u, r, text)
    \/ /\ calls < MaxCalls
       /\ \E u \in Users, r \in 1 .. (next_reply - 1) : ReplyLikes_begin(1, u, r)
    \/ /\ calls < MaxCalls
       /\ \E u \in Users, c \in Comments : CommentLikes_post(1, u, c)
    \/ /\ calls < MaxCalls
       /\ \E u \in Users, p \in Posts : UserPostDetail_begin(1, u, p)
    \/ PostLike_post(1)
    \/ CommentReplies_post(1)
    \/ ReplyModify_delete(1)
    \/ ReplyModify_put(1)
    \/ ReplyLikes_post(1)
    \/ UserPostDetail_delete(1)
    \/ Return(1)

Spec == Init /\ [][Next]_vars

\* one request at a time, and a storage call of deletePost may fail
NextFail ==
    \/ Next
    \/ UserPostDetail_abort(1)

SpecFail == Init /\ [][NextFail]_vars

\* two workers, their storage calls interleaved; the requests come from the post owner
\* and one other user and are about the post that has the comments
RaceUsers == {"A", "B"}
RacePosts == {"p1"}

NextConc ==
    \/ /\ calls < MaxConcCalls
       /\ \E q \in Procs, u \in RaceUsers, p \in RacePosts : PostLike_begin(q, u, p)
    \/ /\ calls < MaxConcCalls
       /\ \E q \in Procs, u \in RaceUsers, c \in Comments : CommentReplies_begin(q, u, c, "text")
    \/ /\ calls < MaxConcCalls
       /\ \E q \in Procs, u \in RaceUsers, r \in 1 .. (next_reply - 1) : ReplyModify_begin(q, u, r)
    \/ /\ calls < MaxConcCalls
       /\ \E q \in Procs, u \in RaceUsers, r \in 1 .. (next_reply - 1) : ReplyLikes_begin(q, u, r)
    \/ \E q \in Procs : PostLike_post(q)
    \/ \E q \in Procs : CommentReplies_post(q)
    \/ \E q \in Procs : ReplyModify_delete(q)
    \/ \E q \in Procs : ReplyLikes_post(q)
    \/ \E q \in Procs : Return(q)

SpecConc == Init /\ [][NextConc]_vars

\* two workers; the owner A deletes the post p1 while B likes the post, replies to its
\* comments and likes the replies, every storage call a step of its own
NextCascade ==
    \/ /\ calls < MaxCascadeCalls
       /\ \E q \in Procs, p \in RacePosts : UserPostDetail_begin(q, PostOwner[p], p)
    \/ /\ calls < MaxCascadeCalls
       /\ \E q \in Procs, p \in RacePosts : PostLike_begin(q, "B", p)
    \/ /\ calls < MaxCascadeCalls
       /\ \E q \in Procs, c \in Comments : CommentReplies_begin(q, "B", c, "text")
    \/ /\ calls < MaxCascadeCalls
       /\ \E q \in Procs, r \in 1 .. (next_reply - 1) : ReplyLikes_begin(q, "B", r)
    \/ \E q \in Procs : UserPostDetail_delete(q)
    \/ \E q \in Procs : PostLike_post(q)
    \/ \E q \in Procs : CommentReplies_post(q)
    \/ \E q \in Procs : ReplyLikes_post(q)
    \/ \E q \in Procs : Return(q)

SpecCascade == Init /\ [][NextCascade]_vars

\* the Firestore application: two workers, their storage calls interleaved; a client
\* that posts a notification names itself as the sender and any user as the recipient
NextFs ==
    \/ /\ calls < MaxFsCalls
       /\ \E q \in Procs, u \in RaceUsers, p \in FsPosts,
             method \in {"fsLikePost", "fsUnlikePost"} :
                fs_post_likes_begin(q, method, Bearer(u), p)
    \/ /\ calls < MaxFsCalls
       /\ \E q \in Procs, u \in RaceUsers, c \in FsComments,
             method \in {"fsLikeComment", "fsUnlikeComment"} :
                fs_comment_likes_begin(q, method, Bearer(u), c)
    \/ /\ calls < MaxFsCalls
       /\ \E q \in Procs, u \in RaceUsers, rcp \in RaceUsers :
              users_create_notification_begin(q, Bearer(u), rcp, u)
    \/ \E q \in Procs : fs_post_likes(q)
    \/ \E q \in Procs : fs_comment_likes(q)
    \/ \E q \in Procs : users_create_notification(q)
    \/ \E q \in Procs : Return(q)

SpecFs == Init /\ [][NextFs]_vars

\* the Firestore application, one request at a time, with any Authorization header:
\* likes on the post, likes on the comment and on its replies, replies, deletion of
\* a comment and of a reply, notifications posted by the client
FsTargets == FsComments \cup FsReplies

\* get_user_display_name on its own: the profile and the Auth record of user A are
\* any of the bounded ones
InitNames ==
    /\ InitPosts(<<>>)
    /\ InitStores
    /\ \E profile \in Profiles : fs_users = [u \in Users |-> IF u = "A" THEN profile
                                                              ELSE NoProfile]
    /\ \E record \in AuthRecords : fs_auth = [AuthUsers EXCEPT !["A"] = record]

\* Firestore, one request at a time: likes on comments and the notification endpoint
\* make notifications, profiles are edited, notifications are updated and deleted
NotificationIds == 1..MaxFsNotifCalls

NextFsNotif ==
    \/ /\ calls < MaxFsNotifCalls
       /\ \E u \in RaceUsers : \E h \in {NoHeader, Bearer(u)}, c \in FsComments,
             method \in {"fsLikeComment", "fsUnlikeComment"} :
                fs_comment_likes_begin(1, method, h, c)
    \/ /\ calls < MaxFsNotifCalls
       /\ \E u \in RaceUsers : \E h \in {NoHeader, Bearer(u)}, rcp \in RaceUsers :
              users_create_notification_begin(1, h, rcp, u)
    \/ /\ calls < MaxFsNotifCalls
       /\ \E u \in RaceUsers : \E h \in {NoHeader, Bearer(u)}, data \in ProfileBodies :
              user_profile_begin(1, h, data)
    \/ /\ calls < MaxFsNotifCalls
       /\ \E u \in RaceUsers : \E h \in {NoHeader, Bearer(u)}, n \in NotificationIds,
             data \in NotificationBodies :
                notification_operations_begin(1, "fsPutNotification", h, n, data)
    \/ /\ calls < MaxFsNotifCalls
       /\ \E u \in RaceUsers : \E h \in {NoHeader, Bearer(u)}, n \in NotificationIds :
                notification_operations_begin(1, "fsDeleteNotification", h, n, <<>>)
    \/ fs_comment_likes(1)
    \/ users_create_notification(1)
    \/ user_profile(1)
    \/ notification_operations(1)
    \/ Return(1)

SpecFsNotif == Init /\ [][NextFsNotif]_vars

\* Firestore, one request at a time: likes and replies are made, posts, comments and
\* replies are edited, posts are deleted
NextFsPosts ==
    \/ /\ calls < MaxFsPostCalls
       /\ \E u \in RaceUsers : \E h \in {NoHeader, Bearer(u)}, p \in FsPosts,
             method \in {"fsLikePost", "fsUnlikePost"} : fs_post_likes_begin(1, method, h, p)
    \/ /\ calls < MaxFsPostCalls
       /\ \E u \in RaceUsers : \E h \in {NoHeader, Bearer(u)}, c \in FsTargets,
             method \in {"fsLikeComment", "fsUnlikeComment"} :
                fs_comment_likes_begin(1, method, h, c)
    \/ /\ calls < MaxFsPostCalls
       /\ \E u \in RaceUsers : \E h \in {NoHeader, Bearer(u)}, c \in FsComments :
              comment_replies_begin(1, h, c)
    \/ /\ calls < MaxFsPostCalls
       /\ \E u \in RaceUsers : \E h \in {NoHeader, Bearer(u)}, p \in FsPosts,
             data \in PostBodies : post_operations_begin(1, "fsPutPost", h, p, data)
    \/ /\ calls < MaxFsPostCalls
       /\ \E u \in RaceUsers : \E h \in {NoHeader, Bearer(u)}, p \in FsPosts :
              post_operations_begin(1, "fsDeletePost", h, p, <<>>)
    \/ /\ calls < MaxFsPostCalls
       /\ \E u \in RaceUsers : \E h \in {NoHeader, Bearer(u)}, c \in FsComments,
             data \in CommentBodies : comment_operations_put_begin(1, h, c, data)
    \/ /\ calls < MaxFsPostCalls
       /\ \E u \in RaceUsers : \E h \in {NoHeader, Bearer(u)}, r \in FsReplies,
             data \in CommentBodies : reply_operations_put_begin(1, h, r, data)
    \/ fs_post_likes(1)
    \/ fs_comment_likes(1)
    \/ comment_replies(1)
    \/ post_operations(1)
    \/ comment_operations_put(1)
    \/ reply_operations_put(1)
    \/ Return(1)

SpecFsPosts == Init /\ [][NextFsPosts]_vars

\* editPost on its own, one request at a time: the posts start with any of the
\* bounded file lists
InitEdit ==
    /\ \E files \in FileLists : InitPosts(files)
    /\ InitStores
    /\ fs_users = [u \in Users |-> NoProfile]
    /\ fs_auth = AuthUsers

NextEdit ==
    \/ /\ calls < MaxEditCalls
       /\ \E u \in RaceUsers, p \in RacePosts, form \in EditForms :
              UserPostDetail_put_begin(1, u, p, form)
    \/ UserPostDetail_put(1)
    \/ Return(1)

SpecEdit == InitEdit /\ [][NextEdit]_vars

NextNames ==
    \/ \E u \in Users : get_user_display_name_call(1, u)
    \/ Return(1)

SpecNames == InitNames /\ [][NextNames]_vars

NextFsSeq ==
    \/ /\ calls < MaxFsSeqCalls
       /\ \E u \in RaceUsers : \E h \in HeadersOf(u), p \in FsPosts,
             method \in {"fsLikePost", "fsUnlikePost"} : fs_post_likes_begin(1, method, h, p)
    \/ /\ calls < MaxFsSeqCalls
       /\ \E u \in RaceUsers : \E h \in HeadersOf(u), c \in FsTargets,
             method \in {"fsLikeComment", "fsUnlikeComment"} :
                fs_comment_likes_begin(1, method, h, c)
    \/ /\ calls < MaxFsSeqCalls
       /\ \E u \in RaceUsers : \E h \in HeadersOf(u), rcp \in RaceUsers :
              users_create_notification_begin(1, h, rcp, u)
    \/ /\ calls < MaxFsSeqCalls
       /\ \E u \in RaceUsers : \E h \in HeadersOf(u), c \in FsComments :
              comment_replies_begin(1, h, c)
    \/ /\ calls < MaxFsSeqCalls
       /\ \E u \in RaceUsers : \E h \in HeadersOf(u), c \in FsComments :
              comment_operations_begin(1, h, c)
    \/ /\ calls < MaxFsSeqCalls
       /\ \E u \in RaceUsers : \E h \in HeadersOf(u), r \in FsReplies :
              reply_operations_begin(1, h, r)
    \/ fs_post_likes(1)
    \/ fs_comment_likes(1)
    \/ users_create_notification(1)
    \/ comment_replies(1)
    \/ comment_operations(1)
    \/ reply_operations(1)
    \/ Return(1)

SpecFsSeq == Init /\ [][NextFsSeq]_vars

----------------------------------------------------------------------------
(* What the claims speak of *)

\* number of Like documents of user u on post p, and of all users on p
LikesOf(u, p) ==
    LET Mine(x) == x.user_id = u /\ x.post_id = p IN CountDocs(likes, Mine)
LikesOn(p) ==
    LET OnPost(x) == x.post_id = p IN CountDocs(likes, OnPost)
ReplyLikesOf(u, r) ==
    LET Mine(x) == x.user_id = u /\ x.reply_id = r IN CountDocs(reply_likes, Mine)

RECURSIVE SumOver(_, _)
SumOver(S, f) == IF S = {} THEN 0
                 ELSE LET x == CHOOSE y \in S : TRUE IN f[x] + SumOver(S \ {x}, f)

\* the likes the completed toggles of all users leave on p
LikedBy(p) == [u \in Users |-> toggles[u, p] % 2]

LiveReplies(c) == {r \in ReplyIds : replies[r].exists /\ replies[r].comment_id = c}
CommentsOf(p) == {c \in Comments : CommentPost[c] = p}
NetReplies == [c \in Comments |-> added[c] - removed[c]]

\* C1: one request at a time, after an odd number of toggleLike(U,P) calls exactly one
\* Like(U,P) exists and after an even number none, and likes_count is the count the
\* other users left (the baseline) plus one, respectively the baseline itself.
C1_ToggleParity ==
    AllIdle => \A p \in Posts : posts[p].exists =>
        /\ \A u \in Users : LikesOf(u, p) = toggles[u, p] % 2
        /\ \A u \in Users :
              posts[p].likes_count =
                  SumOver(Users \ {u}, LikedBy(p)) + (IF toggles[u, p] % 2 = 1 THEN 1 ELSE 0)

C1_Witness ==
    AllIdle /\ toggles["B", "p1"] = 2 /\ toggles["C", "p1"] = 1 /\ posts["p1"].exists

\* C2: one request at a time, once deletePost has answered 200 the post is gone and no
\* like, comment, comment like, reply, reply like or notification refers to the post,
\* to a comment of it or to a reply under one of its comments.
NothingRefersTo(p) ==
    /\ ~posts[p].exists
    /\ LikesOn(p) = 0
    /\ \A c \in CommentsOf(p) : ~comments[c].exists
    /\ \A c \in Comments : comments[c].post_id # p
    /\ \A x \in BagToSet(comment_likes) : x.comment_id \notin CommentsOf(p)
    /\ \A r \in ReplyIds : replies[r].post_id # p /\ replies[r].comment_id \notin CommentsOf(p)
    /\ \A x \in BagToSet(reply_likes) : x.post_id # p /\ x.comment_id \notin CommentsOf(p)
    /\ \A x \in BagToSet(notifications) : x.post_id # p /\ x.comment_id \notin CommentsOf(p)

C2_DeletePostCascade ==
    /\ \A q \in Procs :
          (req[q].op = "deletePost" /\ req[q].pc = "done" /\ req[q].status = 200)
              => NothingRefersTo(req[q].id)
    /\ AllIdle => \A p \in Posts : ~posts[p].exists => NothingRefersTo(p)

C2_Witness ==
    \E q \in Procs : /\ req[q].op = "deletePost" /\ req[q].pc = "done"
                     /\ req[q].status = 200 /\ req[q].rids # {} /\ req[q].cids # {}

\* C3: under every interleaving of toggleLike requests, whenever no request is in
\* progress likes_count of a post equals the number of Like documents on it and is
\* not negative.
C3_LikesCountMatches ==
    AllIdle => \A p \in Posts : posts[p].exists =>
        /\ posts[p].likes_count = LikesOn(p)
        /\ posts[p].likes_count >= 0

\* C4: under every interleaving at most one Like exists per (user, post) and at most one
\* ReplyLike per (user, reply); an insert_one that meets an existing document of the
\* pair fails: the request answers 500 and no collection changes, so no counter moves.
AtMostOneLike ==
    /\ \A u \in Users, p \in Posts : LikesOf(u, p) <= 1
    /\ \A u \in Users, r \in ReplyIds : ReplyLikesOf(u, r) <= 1

SecondInsert(q) ==
    /\ req[q].pc = "write"
    /\ ~req[q].existing
    /\ \/ req[q].op = "toggleLike" /\ LikesOf(req[q].user, req[q].id) > 0
       \/ req[q].op = "toggleReplyLike" /\ ReplyLikesOf(req[q].user, req[q].rid) > 0

SecondInsertFails ==
    \A q \in Procs : (SecondInsert(q) /\ req'[q] # req[q]) =>
        /\ req'[q].pc = "done" /\ req'[q].status = 500
        /\ UNCHANGED mongoVars

C4_UniqueLikes == []AtMostOneLike /\ [][SecondInsertFails]_vars

C4_Witness ==
    /\ \E q \in Procs : req[q].op = "toggleLike" /\ req[q].pc = "done" /\ req[q].status = 500
    /\ LikesOf("B", "p1") = 1

\* C5: in the Firestore application, under every interleaving at most one 'likes'
\* document exists per (userId, postId) and at most one 'commentLikes' document per
\* (userId, commentId).
C5_FsUniqueLikes ==
    /\ \A u \in Users, p \in FsPosts :
          Cardinality({x \in fs_likes : x.userId = u /\ x.postId = p}) <= 1
    /\ \A u \in Users, c \in FsComments :
          Cardinality({x \in fs_commentLikes : x.userId = u /\ x.commentId = c}) <= 1

\* C6: one request at a time, after any sequence of addReply and deleteReply calls
\* replies_count of a comment is the number of its replies, each successful addReply
\* having added one and each successful deleteReply having taken one away, and
\* comments_count of a post has moved by replies added minus replies deleted.
C6_ReplyCounters ==
    AllIdle =>
        /\ \A c \in Comments : comments[c].exists =>
              /\ comments[c].replies_count = Cardinality(LiveReplies(c))
              /\ comments[c].replies_count = added[c] - removed[c]
        /\ \A p \in Posts : posts[p].exists =>
              posts[p].comments_count =
                  Cardinality(CommentsOf(p)) + SumOver(CommentsOf(p), NetReplies)

C6_Witness ==
    AllIdle /\ added["c2"] = 2 /\ removed["c2"] = 1 /\ comments["c2"].exists

\* C7: under every interleaving of addReply and deleteReply requests, once all have
\* completed replies_count of a comment is the number of its replies and not negative.
C7_RepliesCountMatches ==
    AllIdle => \A c \in Comments : comments[c].exists =>
        /\ comments[c].replies_count = Cardinality(LiveReplies(c))
        /\ comments[c].replies_count >= 0

\* C8: in the Firestore application no notification has its recipient as its sender.
C8_FsNoSelfNotification ==
    \A x \in fs_notifications : x.recipientId # x.senderId

\* C9: one request at a time, with the post owner A and another user B: after B's
\* first toggleLike likes_count is 1 and exactly one post_liked notification from B
\* to A exists, after B's second likes_count is 0 and none exists; the owner's own
\* toggles leave no notification.
OthersIdleOn(u, p) == \A v \in Users \ {u} : toggles[v, p] = 0

C9_LikeNotification ==
    AllIdle => \A p \in Posts, u \in Users : posts[p].exists =>
        LET a == posts[p].user_id
            n == CopiesIn(Notification(a, u, "post_liked", p, NoId, NoReply), notifications)
        IN /\ u # a => n = toggles[u, p] % 2
           /\ u = a => \A x \in BagToSet(notifications) :
                          ~(x.type = "post_liked" /\ x.actor_id = a /\ x.post_id = p)
           /\ (OthersIdleOn(u, p) /\ toggles[u, p] = 1) => posts[p].likes_count = 1
           /\ (OthersIdleOn(u, p) /\ toggles[u, p] = 2) => posts[p].likes_count = 0

C9_Witness ==
    /\ AllIdle /\ posts["p1"].exists
    /\ toggles["B", "p1"] = 2 /\ toggles["A", "p1"] = 0 /\ toggles["C", "p1"] = 0

\* C10: addReply by R on a comment of C under a post of O: the users who get a
\* reply_added notification for the new reply are exactly {C, O} without R, one
\* notification each.
ReplyAddedTo(r) ==
    {x \in BagToSet(notifications) : x.type = "reply_added" /\ x.reply_id = r}

C10_ReplyRecipients ==
    \A q \in Procs :
        (req[q].op = "addReply" /\ req[q].pc = "done" /\ req[q].status = 201) =>
            LET c == req[q].id
                o == PostOwner[CommentPost[c]]
            IN /\ {x.recipient_id : x \in ReplyAddedTo(req[q].rid)}
                     = {CommentOwner[c], o} \ {req[q].user}
               /\ \A x \in ReplyAddedTo(req[q].rid) :
                     /\ CopiesIn(x, notifications) = 1
                     /\ x.actor_id = req[q].user
                     /\ \A y \in ReplyAddedTo(req[q].rid) :
                           y.recipient_id = x.recipient_id => y = x

C10_Witness ==
    \E q \in Procs :
        /\ req[q].op = "addReply" /\ req[q].pc = "done" /\ req[q].status = 201
        /\ req[q].user = "C" /\ req[q].id = "c2"
        /\ Cardinality(ReplyAddedTo(req[q].rid)) = 2

\* C11: once the Firestore deleteReply(r) has answered 200, no notification generated
\* by r is left: when every reply of r's author under the parent comment has been
\* deleted, no 'reply' notification from that author about the comment remains, and
\* no notification has r as its commentId.
C11_ReplyNotificationsGone ==
    \A q \in Procs :
        (req[q].op = "fsDeleteReply" /\ req[q].pc = "done" /\ req[q].status = 200) =>
            LET r == req[q].id
                c == fs_comments[r].parentId
                mine == {d \in comment_replies_get(c) : fs_comments[d].userId = req[q].user}
            IN /\ \A x \in fs_notifications : x.commentId # r
               /\ (\A d \in mine : fs_comments[d].deleted) =>
                     \A x \in fs_notifications :
                         ~(x.type = "reply" /\ x.senderId = req[q].user /\ x.commentId = c)

\* C12: deleteReply by u on a reply that exists answers 200 exactly when u wrote the
\* reply or owns the reply's post; any other caller gets 403, and that request has
\* changed no document: the reply is still stored as it was found.
C12_DeleteReplyAuthorization ==
    \A q \in Procs :
        (req[q].op = "deleteReply" /\ req[q].pc = "done" /\ req[q].doc.exists) =>
            LET d == req[q].doc
                allowed == d.user_id = req[q].user \/ PostOwner[d.post_id] = req[q].user
            IN /\ req[q].status = 200 <=> allowed
               /\ ~allowed => /\ req[q].status = 403
                              /\ ~req[q].wrote
                              /\ replies[req[q].rid] = d

C12_Witness ==
    \E q \in Procs :
        /\ req[q].op = "deleteReply" /\ req[q].pc = "done" /\ req[q].status = 403
        /\ req[q].doc.exists
        /\ \E x \in BagToSet(reply_likes) : x.reply_id = req[q].rid

\* C13: deletePost by u on a post that does not exist or belongs to another user
\* answers 404 at its first storage call and deletes nothing: the lookup step ends
\* the request with every collection as it was, and a deletePost answered 404 has
\* changed no document.
C13_DeletePostNotFound ==
    /\ [](\A q \in Procs :
            (req[q].op = "deletePost" /\ req[q].pc = "done" /\ req[q].status = 404)
                => ~req[q].wrote)
    /\ [][\A q \in Procs :
            (At(q, "deletePost", "begin") /\ req'[q] # req[q]) =>
                IF posts[req[q].id].exists /\ posts[req[q].id].user_id = req[q].user
                  THEN req'[q].pc # "done"
                  ELSE /\ req'[q].pc = "done" /\ req'[q].status = 404
                       /\ UNCHANGED mongoVars]_vars

C13_Witness ==
    \E q \in Procs :
        /\ req[q].op = "deletePost" /\ req[q].pc = "done" /\ req[q].status = 404
        /\ posts[req[q].id].exists /\ posts[req[q].id].user_id # req[q].user
        /\ LikesOn(req[q].id) > 0
        /\ \E r \in ReplyIds : replies[r].exists /\ replies[r].post_id = req[q].id

\* C14: deletePost(P) interleaved with toggleLike on P, addReply on a comment of P
\* and toggleReplyLike on a reply under P: once every request has completed, nothing
\* refers to a post that is gone, to its comments or to their replies.
C14_NoOrphansAfterRace ==
    AllIdle => \A p \in RacePosts : ~posts[p].exists => NothingRefersTo(p)

\* C15: deletePost deletes post likes, comment likes, reply likes, replies, comments,
\* notifications and then the post, in this order: a request that has got past a step
\* has left nothing of that step's kind, the post is there as long as the request is
\* in progress, whenever something still refers to a post the post exists, and a
\* deletePost that answered 500 has not deleted the post.
StepOf(l) == CHOOSE i \in DOMAIN CascadeSteps : CascadeSteps[i] = l

C15_CascadeOrder ==
    /\ \A p \in Posts : ~posts[p].exists => NothingRefersTo(p)
    /\ \A q \in Procs :
          (req[q].op = "deletePost" /\ req[q].pc = "done" /\ req[q].status = 500)
              => posts[req[q].id].exists
    /\ \A q \in Procs :
          (req[q].op = "deletePost" /\ req[q].pc \notin {"begin", "done"}) =>
              LET p == req[q].id
                  at == StepOf(req[q].pc)
              IN /\ posts[p].exists
                 /\ at > StepOf("likes") => LikesOn(p) = 0
                 /\ at > StepOf("comment_likes") =>
                       \A x \in BagToSet(comment_likes) : x.comment_id \notin CommentsOf(p)
                 /\ at > StepOf("reply_likes") =>
                       \A x \in BagToSet(reply_likes) : x.post_id # p
                 /\ at > StepOf("replies") => \A r \in ReplyIds : replies[r].post_id # p
                 /\ at > StepOf("comments") => \A c \in CommentsOf(p) : ~comments[c].exists
                 /\ at > StepOf("notifications") =>
                       \A x \in BagToSet(notifications) : x.post_id # p

\* a cascade that failed after deleting the likes and the replies, before the comments
C15_Witness ==
    \E q \in Procs :
        /\ req[q].op = "deletePost" /\ req[q].pc = "done" /\ req[q].status = 500
        /\ req[q].wrote /\ req[q].rids # {}
        /\ \A r \in ReplyIds : ~replies[r].exists
        /\ \E c \in CommentsOf(req[q].id) : comments[c].exists

\* C16 as stated: updateReply(u, r, content) answers 404 when r does not exist and
\* 403, leaving the reply as it is, when r exists and u is not its author; when it
\* answers 200 only content and updated_at of r have changed.
UpdateReplyDone(q) == req[q].op = "updateReply" /\ req[q].pc = "done"

\* the steps of an updateReply write nothing but content and updated_at of its reply
UpdateReplyWrites ==
    \A q \in Procs : (req[q].op = "updateReply" /\ req'[q] # req[q]) =>
        /\ UNCHANGED <<posts, comments, likes, comment_likes, reply_likes, notifications,
                       next_reply>>
        /\ \A r \in ReplyIds :
              replies'[r] = IF r = req[q].rid /\ req[q].pc = "update"
                              THEN [replies[r] EXCEPT !.content = replies'[r].content,
                                                      !.updated_at = replies'[r].updated_at]
                              ELSE replies[r]

UpdateReplyEdited(q) ==
    req[q].status = 200 =>
        /\ req[q].doc.exists /\ req[q].doc.user_id = req[q].user
        /\ replies[req[q].rid] = [req[q].doc EXCEPT !.content = Strip(req[q].content),
                                                    !.updated_at = @ + 1]

C16_UpdateReplyAsStated ==
    /\ [](\A q \in Procs : UpdateReplyDone(q) =>
            LET r == req[q].rid IN
            /\ ~replies[r].exists => req[q].status = 404
            /\ (replies[r].exists /\ replies[r].user_id # req[q].user)
                  => (req[q].status = 403 /\ ~req[q].wrote)
            /\ UpdateReplyEdited(q))
    /\ [][UpdateReplyWrites]_vars

\* C16, amended: an empty content after trimming is answered 400, whatever the reply
\* and the caller, and changes nothing; with a non-empty content the answer is 404
\* when r does not exist, 403 with the reply unchanged when u is not its author, and
\* 200 after a change of content and updated_at alone.
C16_UpdateReply ==
    /\ [](\A q \in Procs : UpdateReplyDone(q) =>
            LET r == req[q].rid
                body == Strip(req[q].content)
            IN /\ body = "" => (req[q].status = 400 /\ ~req[q].wrote)
               /\ (body # "" /\ ~replies[r].exists)
                     => (req[q].status = 404 /\ ~req[q].wrote)
               /\ (body # "" /\ replies[r].exists /\ replies[r].user_id # req[q].user)
                     => (req[q].status = 403 /\ ~req[q].wrote)
               /\ (body # "" /\ replies[r].exists /\ replies[r].user_id = req[q].user)
                     => req[q].status = 200
               /\ UpdateReplyEdited(q))
    /\ [][UpdateReplyWrites]_vars

C16_Witness ==
    \E q \in Procs :
        /\ UpdateReplyDone(q) /\ req[q].status = 200
        /\ req[q].content = " edit " /\ replies[req[q].rid].content = "edit"
        /\ replies[req[q].rid].likes_count = 1 /\ replies[req[q].rid].updated_at = 1

\* C17: in the Firestore application, deleteComment by the owner of the post the
\* comment belongs to succeeds, whether or not the caller wrote the comment.
C17_FsPostOwnerDeletesComment ==
    \A q \in Procs :
        (/\ req[q].op = "fsDeleteComment" /\ req[q].pc = "done"
         /\ req[q].user # NoId
         /\ fs_comments[req[q].id].exists
         /\ fs_posts[fs_comments[req[q].id].postId].userId = req[q].user)
            => req[q].status = 200

\* C18: once the Firestore deleteComment(c) has answered 200, GET /comments/<post_id>
\* returns neither c nor a reply of c, GET /comments/<c>/replies returns nothing, no
\* commentLikes document is on c or on a reply of c, and no notification has c or a
\* reply of c as its commentId.
FsRepliesOf(c) == {r \in DOMAIN fs_comments : fs_comments[r].parentId = c}

FsLikesAndNotificationsGone(c) ==
    \A d \in {c} \cup FsRepliesOf(c) :
        /\ FsLikesOn(d) = {}
        /\ \A x \in fs_notifications : x.commentId # d

C18_FsDeleteCommentCascade ==
    \A q \in Procs :
        (req[q].op = "fsDeleteComment" /\ req[q].pc = "done" /\ req[q].status = 200) =>
            LET c == req[q].id IN
            /\ \A p \in FsPosts :
                  post_comments_get(p) \cap ({c} \cup FsRepliesOf(c)) = {}
            /\ comment_replies_get(c) = {}
            /\ FsLikesAndNotificationsGone(c)

\* C19: in the MongoDB handlers, under every interleaving, a request that has answered
\* 400, 403 or 404 has inserted, updated and deleted no document.
MongoOps == {"toggleLike", "addReply", "updateReply", "deleteReply", "toggleReplyLike",
             "deletePost"}

C19_NoWriteBeforeRefusal ==
    \A q \in Procs :
        (/\ req[q].op \in MongoOps /\ req[q].pc = "done"
         /\ req[q].status \in {400, 403, 404})
            => ~req[q].wrote

\* C20: a request to a Firestore endpoint without an Authorization header, with one
\* that does not start with 'Bearer ', or with a token the identity provider rejects
\* is answered 401, and none of its steps creates, updates or deletes a document.
FsOps == {"fsLikePost", "fsUnlikePost", "fsLikeComment", "fsUnlikeComment",
          "fsCreateNotification", "fsAddReply", "fsDeleteComment", "fsDeleteReply"}

Unauthenticated(q) ==
    /\ req[q].op \in FsOps
    /\ \/ req[q].auth = NoHeader
       \/ req[q].auth.scheme # "Bearer"
       \/ req[q].auth.token \notin Users

C20_FsUnauthorized ==
    /\ [](\A q \in Procs : (Unauthenticated(q) /\ req[q].pc = "done")
                               => (req[q].status = 401 /\ ~req[q].wrote))
    /\ [][\A q \in Procs : (Unauthenticated(q) /\ req'[q] # req[q])
                               => UNCHANGED fsVars]_vars

C20_Witness ==
    \E q \in Procs :
        /\ req[q].op = "fsDeleteComment" /\ req[q].pc = "done" /\ req[q].status = 401
        /\ req[q].auth = Bearer("forged")
        /\ FsLikesOn(req[q].id) # {}
        /\ comment_replies_get(req[q].id) # {}

\* C21: one request at a time, toggleReplyLike by U on a reply r of another user: a
\* call that found no like leaves exactly one ReplyLike(U, r) and exactly one
\* reply_liked notification from U to the reply owner about r; a call that found the
\* like leaves neither; likes_count of r is the number of likes on r either way.
ReplyLikedBy(u, r) ==
    {x \in BagToSet(notifications) :
        x.type = "reply_liked" /\ x.actor_id = u /\ x.reply_id = r}

ReplyLikesOn(r) ==
    LET OnReply(x) == x.reply_id = r IN CountDocs(reply_likes, OnReply)

C21_ReplyLikeToggle ==
    \A q \in Procs :
        (req[q].op = "toggleReplyLike" /\ req[q].pc = "done" /\ req[q].status = 200) =>
            LET u == req[q].user
                r == req[q].rid
                d == req[q].doc
                n == Notification(d.user_id, u, "reply_liked", d.post_id, d.comment_id, r)
                now == IF req[q].existing THEN 0 ELSE 1
            IN /\ ReplyLikesOf(u, r) = now
               /\ replies[r].likes_count = ReplyLikesOn(r)
               /\ u # d.user_id => /\ CopiesIn(n, notifications) = now
                                   /\ ReplyLikedBy(u, r) = IF now = 1 THEN {n} ELSE {}
               /\ u = d.user_id => ReplyLikedBy(u, r) = {}

C21_Witness ==
    \E q \in Procs :
        /\ req[q].op = "toggleReplyLike" /\ req[q].pc = "done" /\ req[q].status = 200
        /\ req[q].existing /\ req[q].user # req[q].doc.user_id
        /\ replies[req[q].rid].likes_count = 0

\* C22: the step of DELETE /comments/<c>/likes by U that removes notifications removes
\* exactly those with senderId = U, commentId = c and type 'comment_like', leaves every
\* other notification as it was, adds none, and answers 200 even when none matched.
C22_UnlikeCommentFrame ==
    [][\A q \in Procs :
          (req[q].op = "fsUnlikeComment" /\ req[q].pc = "unnotify" /\ req'[q].pc = "done") =>
              /\ req'[q].status = 200
              /\ fs_notifications' \subseteq fs_notifications
              /\ \A x \in fs_notifications :
                     x \in fs_notifications' <=>
                        ~(/\ x.senderId = req[q].user
                          /\ x.commentId = req[q].id
                          /\ x.type = "comment_like")]_vars

\* an unlike has completed and a notification of another type from the same sender
\* about the same comment is still there
C22_Witness ==
    \E q \in Procs :
        /\ req[q].op = "fsUnlikeComment" /\ req[q].pc = "done" /\ req[q].status = 200
        /\ \E x \in fs_notifications :
              /\ x.senderId = req[q].user /\ x.commentId = req[q].id
              /\ x.type # "comment_like"

\* C26: one request at a time on the Firestore post like endpoints: POST by U on p
\* answers 400 and creates nothing exactly when U's like is there, DELETE answers 404
\* and deletes nothing exactly when it is not; a POST that succeeds (201) leaves one
\* like of U on p, a DELETE that succeeds (200) leaves none, no other step changes the
\* number of U's likes on p, and that number is never above 1.
FsPostLikesOf(u, p) == Cardinality({x \in fs_likes : x.userId = u /\ x.postId = p})

FsLikeAnswer(q) ==
    LET u == req[q].user
        p == req[q].id
    IN /\ req[q].pc = "query" =>
             /\ fs_likes' = fs_likes
             /\ req[q].op = "fsLikePost" => req'[q].status = 400 /\ FsPostLikesOf(u, p) = 1
             /\ req[q].op = "fsUnlikePost" => req'[q].status = 404 /\ FsPostLikesOf(u, p) = 0
       /\ req[q].pc = "create" =>
             req'[q].status = 201 /\ FsPostLikesOf(u, p) = 0 /\ FsPostLikesOf(u, p)' = 1
       /\ req[q].pc = "delete" =>
             req'[q].status = 200 /\ FsPostLikesOf(u, p) = 1 /\ FsPostLikesOf(u, p)' = 0

C26_FsPostLikeToggle ==
    [][/\ \A q \in Procs :
            (req[q].op \in {"fsLikePost", "fsUnlikePost"} /\ req'[q].pc = "done") =>
                FsLikeAnswer(q)
       /\ \A u \in Users, p \in FsPosts :
            /\ FsPostLikesOf(u, p)' \in {0, 1}
            /\ FsPostLikesOf(u, p)' # FsPostLikesOf(u, p) =>
                  \E q \in Procs :
                     /\ req[q].op \in {"fsLikePost", "fsUnlikePost"}
                     /\ req[q].user = u /\ req[q].id = p
                     /\ req'[q].pc = "done" /\ req'[q].status \in {200, 201}]_vars

\* a POST on a post the caller already likes has been refused
C26_Witness ==
    \E q \in Procs :
        /\ req[q].op = "fsLikePost" /\ req[q].pc = "done" /\ req[q].status = 400
        /\ FsPostLikesOf(req[q].user, req[q].id) = 1

\* C27: once a comment or reply is marked deleted, no step creates a commentLikes
\* document, a reply or a notification that refers to it.
FsRefersTo(c) ==
    [likes |-> {x \in fs_commentLikes : x.commentId = c},
     replies |-> {r \in FsTargets : fs_comments[r].exists /\ fs_comments[r].parentId = c},
     notifications |-> {x \in fs_notifications : x.commentId = c}]

C27_NothingNewOnDeleted ==
    [][\A c \in FsTargets :
          (fs_comments[c].exists /\ fs_comments[c].deleted) =>
              /\ FsRefersTo(c)'.likes \subseteq FsRefersTo(c).likes
              /\ FsRefersTo(c)'.replies \subseteq FsRefersTo(c).replies
              /\ FsRefersTo(c)'.notifications \subseteq FsRefersTo(c).notifications]_vars

\* C24: get_user_display_name returns the first non-empty of the profile's displayName,
\* the profile's username, the Auth record's display_name and the local part of its
\* email, and "A user" when all are empty or the Auth lookup fails.
RECURSIVE FirstNonEmpty(_)
FirstNonEmpty(candidates) ==
    IF candidates = <<>> THEN AUser
    ELSE IF Head(candidates) # NoName THEN Head(candidates)
    ELSE FirstNonEmpty(Tail(candidates))

LocalPart(email) ==
    IF \E i \in DOMAIN email : email[i] = "@"
      THEN SubSeq(email, 1, (CHOOSE i \in DOMAIN email :
                                /\ email[i] = "@"
                                /\ \A j \in 1..(i - 1) : email[j] # "@") - 1)
      ELSE email

NameSources(u) ==
    <<fs_users[u].displayName, fs_users[u].username>> \o
    (IF fs_auth[u].exists THEN <<fs_auth[u].display_name, LocalPart(fs_auth[u].email)>>
     ELSE <<>>)

C24_DisplayName ==
    \A q \in Procs :
        (req[q].op = "getUserDisplayName" /\ req[q].pc = "done") =>
            req[q].name = FirstNonEmpty(NameSources(req[q].id))

\* the name came from the fourth source, the local part of the email
C24_Witness ==
    \E q \in Procs :
        /\ req[q].op = "getUserDisplayName" /\ req[q].pc = "done"
        /\ req[q].id = "A"
        /\ fs_users["A"].exists /\ fs_users["A"].displayName = NoName
        /\ fs_users["A"].username = NoName /\ fs_auth["A"].display_name = NoName
        /\ req[q].name = <<"m", "n">>

\* C29: PUT /users/profile with a non-empty displayName or username, answered 200:
\* every notification whose senderId is the caller then carries the new displayName
\* as senderName if one was given, else the new username; no step of the request
\* touches a notification of another sender, adds or removes one, or changes any
\* field but senderName.
GivenName(data) ==
    IF "displayName" \in DOMAIN data /\ data.displayName # <<>> THEN data.displayName
    ELSE IF "username" \in DOMAIN data THEN data.username
    ELSE <<>>

C29_ProfileRenamesNotifications ==
    [][\A q \in Procs :
          req[q].op = "fsPutProfile" =>
              /\ \A x \in fs_notifications :
                    /\ x.senderId # req[q].user => x \in fs_notifications'
                    /\ \E y \in fs_notifications' : y = [x EXCEPT !.senderName = y.senderName]
              /\ Cardinality(fs_notifications') = Cardinality(fs_notifications)
              /\ (/\ req[q].pc # "done" /\ req'[q].pc = "done" /\ req'[q].status = 200
                  /\ GivenName(req[q].update) # <<>>) =>
                    \A y \in fs_notifications' :
                        y.senderId = req[q].user =>
                            y.senderName = GivenName(req[q].update)]_vars

\* a profile PUT has renamed the caller's notification next to one of another sender
C29_Witness ==
    \E q \in Procs :
        /\ req[q].op = "fsPutProfile" /\ req[q].pc = "done" /\ req[q].status = 200
        /\ GivenName(req[q].update) # <<>>
        /\ \E x \in fs_notifications :
              x.senderId = req[q].user /\ x.senderName = GivenName(req[q].update)
        /\ \E x \in fs_notifications :
              x.senderId # req[q].user /\ x.senderName # GivenName(req[q].update)

\* C23: PUT and DELETE /notifications/<id>: a missing notification gives 404, a caller
\* who is not its recipientId gets 403, both with the notifications unchanged; a step
\* of the endpoint changes only the addressed notification and only when the caller
\* is its recipient.
C23_OnlyRecipient ==
    [][\A q \in Procs :
          req[q].op \in {"fsPutNotification", "fsDeleteNotification"} =>
              LET found == {x \in fs_notifications : x.id = req[q].rid} IN
              /\ (req[q].pc = "begin" /\ req[q].user # NoId /\ found = {}) =>
                    /\ req'[q].pc = "done" /\ req'[q].status = 404
                    /\ fs_notifications' = fs_notifications
              /\ (/\ req[q].pc = "begin" /\ req[q].user # NoId /\ found # {}
                  /\ \A x \in found : x.recipientId # req[q].user) =>
                    /\ req'[q].pc = "done" /\ req'[q].status = 403
                    /\ fs_notifications' = fs_notifications
              /\ fs_notifications' # fs_notifications =>
                    /\ \E x \in found : x.recipientId = req[q].user
                    /\ \A y \in fs_notifications \ found : y \in fs_notifications']_vars

\* a caller who is not the recipient has been refused and the notification is there
C23_Witness ==
    \E q \in Procs :
        /\ req[q].op \in {"fsPutNotification", "fsDeleteNotification"}
        /\ req[q].pc = "done" /\ req[q].status = 403
        /\ \E x \in fs_notifications : x.id = req[q].rid /\ x.recipientId # req[q].user
\* C28: the userId of a post, comment or reply is the uid of the authenticated user
\* who created it: a document that appears carries the caller as userId, and no step
\* changes the userId of a post, or the userId, postId or parentId of a comment or
\* reply, that stays in place.
C28_AuthorshipFixed ==
    [][/\ \A p \in FsPosts :
            (fs_posts[p].exists /\ fs_posts'[p].exists) =>
                fs_posts'[p].userId = fs_posts[p].userId
       /\ \A c \in FsTargets :
            /\ (fs_comments[c].exists /\ fs_comments'[c].exists) =>
                  /\ fs_comments'[c].userId = fs_comments[c].userId
                  /\ fs_comments'[c].postId = fs_comments[c].postId
                  /\ fs_comments'[c].parentId = fs_comments[c].parentId
            /\ (~fs_comments[c].exists /\ fs_comments'[c].exists) =>
                  \E q \in Procs : /\ req[q].user # NoId
                                   /\ fs_comments'[c].userId = req[q].user]_vars

\* C25: after a DELETE of post p by its owner has answered 200, with nothing else in
\* progress, no document of 'comments' has postId p or a parent that is gone, no
\* commentLikes document is about a comment or reply that is gone, no like has
\* postId p, and no notification has postId p or is about a comment or reply that is
\* gone.
FsGone(c) == c \in FsTargets /\ ~fs_comments[c].exists

C25_FsDeletePostCascade ==
    \A q \in Procs :
        (req[q].op = "fsDeletePost" /\ req[q].pc = "done" /\ req[q].status = 200) =>
            LET p == req[q].id IN
            /\ \A c \in FsTargets :
                  fs_comments[c].exists =>
                      /\ fs_comments[c].postId # p
                      /\ ~FsGone(fs_comments[c].parentId)
            /\ \A x \in fs_commentLikes : ~FsGone(x.commentId)
            /\ \A x \in fs_likes : x.postId # p
            /\ \A x \in fs_notifications : x.postId # p /\ ~FsGone(x.commentId)
\* C30: the step of editPost that writes the post leaves, without an existing_files
\* field, every current file reference in place and appends the uploads; with the
\* field, exactly the current references whose file_id is in the supplied list, in
\* their original order, followed by the uploads. No other step changes a post's
\* files.
EditWrites(q, p) == At(q, "editPost", "update") /\ req[q].id = p

FilesAsStated(old, new, form, uploaded) ==
    LET supplied == IF "existing_files" \in DOMAIN form
                      THEN {form.existing_files[k] : k \in DOMAIN form.existing_files}
                      ELSE {old[k].file_id : k \in DOMAIN old}
        Pos(i) == Cardinality({j \in 1..i : old[j].file_id \in supplied})
    IN /\ Len(new) = Pos(Len(old)) + Len(uploaded)
       /\ \A i \in DOMAIN old : old[i].file_id \in supplied => new[Pos(i)] = old[i]
       /\ \A k \in DOMAIN uploaded : new[Pos(Len(old)) + k] = uploaded[k]

C30_EditPostFiles ==
    [][\A p \in Posts :
          IF \E q \in Procs : EditWrites(q, p)
            THEN \A q \in Procs :
                    EditWrites(q, p) =>
                        FilesAsStated(posts[p].files, posts'[p].files, req[q].update,
                                      req[q].new_files)
            ELSE posts'[p].files = posts[p].files]_vars

\* an edit that named one of two files to keep and uploaded one has answered 200
C30_Witness ==
    \E q \in Procs :
        /\ req[q].op = "editPost" /\ req[q].pc = "done" /\ req[q].status = 200
        /\ "existing_files" \in DOMAIN req[q].update
        /\ Len(req[q].files) = 2 /\ Len(req[q].new_files) = 1
        /\ Len(posts[req[q].id].files) = 2
=============================================================================
